---------------------------- MODULE Spec2Model ----------------------------
(***************************************************************************)
(* Scan resolution, scan counting, rate limiting and record creation of   *)
(* the QR code generator: QRRedirectManager (js/redirect.js), QRGenerator  *)
(* (js/qr-generator.js), FirebaseManager and RateLimiter                   *)
(* (firebase-config.js), SecurityUtils.CryptoManager (security-utils.js).  *)
(***************************************************************************)
EXTENDS Integers, Sequences, FiniteSets, TLC

(***************************************************************************)
(* Bounds of the model.                                                    *)
(***************************************************************************)
\* page loads of the redirect page (scans of the same link) in one behaviour
MaxLoads == 2
\* longest content, in tokens, the validator is enumerated on
MaxTokens == 3
\* clients that scan concurrently
NumClients == 2
\* incrementScanCount calls one concurrent client makes
MaxScans == 2
\* the clock of the rate limiter advances in steps of TickMs up to HorizonMs
TickMs == 20000
HorizonMs == 80000
\* canMakeRequest calls in one behaviour of the rate limiter
MaxCalls == 12
\* generateQRCode calls in one behaviour of the generator page
MaxGen == 2
\* clock steps in one behaviour of the generator page
MaxGenTicks == 1
\* the values Math.random() is drawn from in generateUniqueId
MaxRandom == 2
\* records in the store checkForDuplicate is enumerated on
MaxRecords == 52
\* generateQRCode calls of one page that overlap
MaxOverlap == 2
\* base-36 digits after the point in Math.random().toString(36)
MaxDigits == 11
\* getItem calls on one key
MaxReads == 3

(***************************************************************************)
(* Program constants.                                                      *)
(***************************************************************************)
maxRequests == 10
timeWindow == 60000
\* lastScanned: null, 'Never' scanned
Never == 0

(***************************************************************************)
(* Values.                                                                 *)
(***************************************************************************)
\* JavaScript null / undefined
Null == [kind |-> "null"]
\* a localStorage key that holds nothing
Absent == [kind |-> "absent"]
\* a value that cannot be decrypted (encrypted key) or parsed (plain key)
Garbled == [kind |-> "garbled"]

Ids == {"qr1"}
NoId == "none"

\* the readings of Date.now()
Times == {k * TickMs : k \in 0 .. (HorizonMs \div TickMs)}
Randoms == 1 .. MaxRandom
\* FirebaseManager.generateUniqueId: `${timestamp}_${randomStr}`
generateUniqueId(timestamp, randomStr) ==
    ToString(timestamp) \o "_" \o ToString(randomStr)
\* the ids the generator page can give a record
GenIds == {generateUniqueId(t, r) : t \in Times, r \in Randoms}
\* every key the node or object 'qr-codes' can have
AllIds == Ids \cup GenIds
Clients == 1 .. NumClients
\* the browser tab that runs the redirect page
Page == 1
\* the overlapping generateQRCode calls of the page
Requests == 1 .. MaxOverlap

(***************************************************************************)
(* Text.  A text is a sequence of tokens, each token a fixed run of        *)
(* characters; the operators below do to a text what the JavaScript does   *)
(* to the string that is the concatenation of its tokens.                  *)
(***************************************************************************)
HttpsTok == "https://"
JsTok == "javascript:"
DataTok == "data:"
VbsTok == "vbscript:"
FileTok == "file:"
DomainTok == "example.com"
WordTok == "hello"
SpaceTok == " "

Tokens == {HttpsTok, JsTok, DataTok, VbsTok, FileTok, DomainTok, WordTok, SpaceTok}

\* text.length > 4000, name.length > 100
maxTextLength == 4000
maxNameLength == 100
\* one letter, and runs of letters that fill "https://example.com" up to
\* maxTextLength characters and "hello" up to maxNameLength characters
LetterTok == "a"
TextPad == "a...a (text)"
NamePad == "a...a (name)"

\* the number of characters of a token
TokenLength(t) ==
    CASE t = HttpsTok -> 8
      [] t = JsTok -> 11
      [] t = DataTok -> 5
      [] t = VbsTok -> 9
      [] t = FileTok -> 5
      [] t = DomainTok -> 11
      [] t = WordTok -> 5
      [] t = SpaceTok -> 1
      [] t = LetterTok -> 1
      [] t = TextPad -> maxTextLength - 19
      [] t = NamePad -> maxNameLength - 5

\* string.length
RECURSIVE StringLength(_)
StringLength(s) == IF s = <<>> THEN 0 ELSE TokenLength(Head(s)) + StringLength(Tail(s))
\* tokens of the form <letters>":" not followed by slashes
OpaqueSchemes == {JsTok, DataTok, VbsTok, FileTok}
\* tokens made of scheme characters only (letters, digits, '.')
Plain == {DomainTok, WordTok}

RECURSIVE SeqsUpTo(_, _)
SeqsUpTo(S, n) ==
    IF n = 0 THEN {<<>>}
    ELSE LET shorter == SeqsUpTo(S, n - 1)
         IN  shorter \cup {Append(s, t) : s \in {x \in shorter : Len(x) = n - 1}, t \in S}

Texts == SeqsUpTo(Tokens, MaxTokens)

Has(s, t) == \E i \in 1 .. Len(s) : s[i] = t

RECURSIVE Remove(_, _)
Remove(s, t) ==
    IF s = <<>> THEN <<>>
    ELSE IF Head(s) = t THEN Remove(Tail(s), t)
    ELSE <<Head(s)>> \o Remove(Tail(s), t)

\* SecurityUtils.escapeHTML: no token holds '&', '<' or '>', so nothing to escape
escapeHTML(text) == text

\* SecurityUtils.sanitizeText: escape, then delete every 'javascript:'
\* (no token holds '<script' or an 'on...=' handler)
sanitizeText(text) == Remove(escapeHTML(text), JsTok)

RECURSIVE TrimLeft(_)
TrimLeft(s) ==
    IF s # <<>> /\ Head(s) = SpaceTok THEN TrimLeft(Tail(s)) ELSE s

RECURSIVE TrimRight(_)
TrimRight(s) ==
    IF s # <<>> /\ s[Len(s)] = SpaceTok THEN TrimRight(SubSeq(s, 1, Len(s) - 1)) ELSE s

\* the URL parser strips leading and trailing spaces
Trim(s) == TrimRight(TrimLeft(s))

(***************************************************************************)
(* The URL parser on a string: "https" or "other", the class of the        *)
(* protocol of the URL it yields; "noscheme" when the string has no        *)
(* scheme (a failure only without a base URL); "badauthority" when it has  *)
(* a scheme and its host or port is invalid (a failure always).            *)
(***************************************************************************)
\* The authority after "//": host characters up to ':' (then the port) or
\* '/' (then the path).  special: the scheme is https, whose host may not
\* be empty.  hostSeen: a host character has been read.
RECURSIVE ParseAuthority(_, _, _)
ParseAuthority(s, special, hostSeen) ==
    IF s = <<>> THEN ~(special /\ ~hostSeen)
    ELSE CASE Head(s) \in Plain -> ParseAuthority(Tail(s), special, TRUE)
           [] Head(s) = SpaceTok -> FALSE      \* forbidden host code point
           [] Head(s) = HttpsTok -> TRUE       \* host "..https", empty port, path "//..."
           [] Head(s) \in OpaqueSchemes ->
                \* host "..data", then the port: empty at the end of the
                \* string, otherwise a non-digit follows
                Tail(s) = <<>>

\* A string that starts with scheme characters (tokens of Plain): it has a
\* scheme only if a ':' follows them directly
RECURSIVE ParseCustomScheme(_)
ParseCustomScheme(s) ==
    IF s = <<>> THEN "noscheme"
    ELSE CASE Head(s) \in Plain -> ParseCustomScheme(Tail(s))
           [] Head(s) = SpaceTok -> "noscheme"
           [] Head(s) \in OpaqueSchemes -> "other"      \* opaque path: anything
           [] Head(s) = HttpsTok ->
                IF ParseAuthority(Tail(s), FALSE, FALSE) THEN "other" ELSE "badauthority"

Parse(string) ==
    LET s == Trim(string)
    IN  IF s = <<>> THEN "noscheme"
        ELSE CASE Head(s) = HttpsTok ->
                    IF ParseAuthority(Tail(s), TRUE, FALSE) THEN "https" ELSE "badauthority"
               [] Head(s) \in OpaqueSchemes -> "other"
               [] Head(s) \in Plain -> ParseCustomScheme(Tail(s))

\* new URL(string) throws
URLThrows(string) == Parse(string) \in {"noscheme", "badauthority"}

\* dangerousPatterns.some(pattern => lowerString.includes(pattern))
HasDangerousPattern(string) == \E t \in OpaqueSchemes : Has(string, t)

\* QRRedirectManager.isValidURL.  The https:// prefix it builds for a bare
\* domain is assigned to arguments[0] only: the caller's string is unchanged.
isValidURL(string) ==
    IF ~URLThrows(string)
    THEN Parse(string) = "https" /\ ~HasDangerousPattern(string)
    ELSE IF Has(string, DomainTok) /\ ~Has(string, SpaceTok)
         THEN ~URLThrows(<<HttpsTok>> \o string)
         ELSE FALSE

\* showError(message)
ErrorPage(message) == [kind |-> "Error", error |-> message]

\* QRRedirectManager.redirectToOriginal: what the page does with the content.
\* window.location.href = sanitizedText resolves the string against the
\* page's URL, and throws when it has a scheme and an invalid authority.
redirectToOriginal(originalText) ==
    LET sanitizedText == sanitizeText(originalText)
    IN  IF isValidURL(sanitizedText)
        THEN IF Parse(sanitizedText) = "badauthority"
             THEN ErrorPage("Unsafe")
             ELSE [kind |-> "Navigate", text |-> sanitizedText]
        ELSE [kind |-> "DisplayAsText", text |-> sanitizeText(sanitizedText)]

(***************************************************************************)
(* Records and stores.                                                     *)
(***************************************************************************)
\* the qrData object FirebaseManager.createQRCode builds
NewRecord(id, name, originalText, createdAt) ==
    [kind |-> "record", id |-> id, name |-> name, originalText |-> originalText,
     logoPath |-> Null, scanCount |-> 0, createdAt |-> createdAt, lastScanned |-> Never]

\* the object stored under 'qr-codes': id -> record, Null where it has no such key
EmptyMap == [i \in AllIds |-> Null]

\* a localStorage value that holds the object data
Stored(data) == [kind |-> "data", data |-> data]

VARIABLES
    now,          \* Date.now() / the server's clock, in ms
    net,          \* the Firebase node 'qr-codes': id -> record or Null
    fbPresent,    \* per client: typeof firebase !== 'undefined' && window.database
    cryptoOk,     \* per client: window.crypto.subtle works on this origin
    encStore,     \* per client: localStorage['encrypted_qr-codes']
    plainStore,   \* per client: localStorage['qr-codes'] (legacy, unencrypted)
    ipc,          \* per client: where its incrementScanCount call stands
    iid,          \* per client: the qrId of that call
    isnap,        \* per client: the data that call works on
    scans,        \* per client: incrementScanCount calls started
    incLogged,    \* per client: 'Scan count incremented for:' lines logged
    pc,           \* QRRedirectManager: position in init()
    qrId,         \* this.qrId
    fallbackData, \* this.fallbackData
    qrData,       \* init's local qrData
    loadedFrom,   \* which 'QR data loaded from ...' line was logged
    consulted,    \* the sources init() has read, in order
    warned,       \* the sources whose read logged an error
    tracked,      \* how the incrementScanCount call of init() ended
    outcome,      \* what the page shows in the end
    shown,        \* the outcomes of the page loads so far
    requests,     \* RateLimiter.requests.get('anonymous')
    callLog,      \* every canMakeRequest call: its time and its result
    remLog,       \* the last getRemainingRequests call: its time and its result
    databaseAvailable, \* the flag the '.info/connected' listener keeps
    storageOk,    \* localStorage.setItem has room (no QuotaExceededError)
    gpc,          \* QRGenerator: position in generateQRCode()
    gtext,        \* generateQRCode's text
    gname,        \* generateQRCode's name
    existingQR,   \* generateQRCode's existingQR
    dupError,     \* checkForDuplicate's read logged an error
    gid,          \* createQRCode's qrId
    gsnap,        \* createQRCode's localQRs
    genOutcome,   \* how the last generateQRCode call ended
    lastRead,     \* what getQRCode returned for the record just created
    ops,          \* the last FirebaseManager call of the generator page
    written,      \* every record createQRCode has stored
    randomVal,    \* generateUniqueId: what Math.random() returned
    idChars,      \* generateUniqueId: the id it returned, character by character
    reads,        \* CryptoManager.getItem('qr-codes'): what the calls returned
    cpc,          \* per overlapping generateQRCode call: its position
    cid,          \* per overlapping generateQRCode call: createQRCode's qrId
    csnap,        \* per overlapping generateQRCode call: createQRCode's localQRs
    scanCountListener, \* this.scanCountListener: the code the page listens to
    listening,    \* the codes a Firebase 'value' listener is attached to
    timers,       \* the codes a setTimeout of onScanCountChange is pending for
    disposed,     \* the codes whose cleanup function has been called
    called        \* the last call of the callback: the data it was given

storeVars == <<net, encStore, plainStore>>
envVars == <<now, fbPresent, cryptoOk>>
incVars == <<ipc, iid, isnap, scans, incLogged>>
pageVars == <<pc, qrId, fallbackData, qrData, loadedFrom, consulted, warned, tracked,
              outcome, shown>>
rateVars == <<requests, callLog>>
extVars == <<randomVal, idChars, reads, cpc, cid, csnap, scanCountListener, listening,
             timers, disposed, called>>
genVars == <<remLog, databaseAvailable, storageOk, gpc, gtext, gname, existingQR,
             dupError, gid, gsnap, genOutcome, lastRead, ops, written, extVars>>
vars == <<storeVars, envVars, incVars, pageVars, rateVars, genVars>>

(***************************************************************************)
(* SecurityUtils.CryptoManager over one client's localStorage.             *)
(***************************************************************************)
\* setItem(key, data): encrypted under 'encrypted_<key>', or, when the
\* encryption throws, as plain JSON under <key>
setItem(enc, plain, ok, data) ==
    IF ok THEN [enc |-> Stored(data), plain |-> plain]
    ELSE [enc |-> enc, plain |-> Stored(data)]

\* getItem(key): the value, the stores after the call, and whether an error
\* was caught ('Secure retrieval failed')
getItem(enc, plain, ok) ==
    IF enc # Absent
    THEN IF ok /\ enc.kind = "data"
         THEN [val |-> enc.data, enc |-> enc, plain |-> plain, err |-> FALSE]
         ELSE [val |-> Null, enc |-> enc, plain |-> plain, err |-> TRUE]
    ELSE IF plain # Absent
    THEN IF plain.kind = "data"
         THEN \* migrate: setItem(key, data), then removeItem(key)
              LET after == setItem(enc, plain, ok, plain.data)
              IN  [val |-> plain.data, enc |-> after.enc, plain |-> Absent, err |-> FALSE]
         ELSE [val |-> Null, enc |-> enc, plain |-> plain, err |-> TRUE]
    ELSE [val |-> Null, enc |-> enc, plain |-> plain, err |-> FALSE]

\* getItem('qr-codes') || {}
OrEmpty(val) == IF val = Null THEN EmptyMap ELSE val

(***************************************************************************)
(* FirebaseManager.incrementScanCount, one call of client c.               *)
(***************************************************************************)
\* the transaction's update function, run on the server's timestamp ts
TxnUpdate(currentData, ts) ==
    IF currentData # Null
    THEN [currentData EXCEPT !.scanCount = currentData.scanCount + 1, !.lastScanned = ts]
    ELSE currentData

\* the local read-modify-write of the record
LocalUpdate(localQRs, id, ts) ==
    [localQRs EXCEPT ![id] = [@ EXCEPT !.scanCount = @ + 1, !.lastScanned = ts]]

\* the call starts: on the Firebase path the transaction runs its update
\* function on the client's cached value (nothing, or the server's value);
\* on the local path it reads the cache
incrementScanCount(c, id) ==
    /\ ipc[c] = "idle"
    /\ iid' = [iid EXCEPT ![c] = id]
    /\ scans' = [scans EXCEPT ![c] = @ + 1]
    /\ IF fbPresent[c]
       THEN /\ \E cached \in {Null, net[id]} : isnap' = [isnap EXCEPT ![c] = cached]
            /\ ipc' = [ipc EXCEPT ![c] = "txn"]
            /\ UNCHANGED <<encStore, plainStore>>
       ELSE LET got == getItem(encStore[c], plainStore[c], cryptoOk[c])
                localQRs == OrEmpty(got.val)
            IN  /\ encStore' = [encStore EXCEPT ![c] = got.enc]
                /\ plainStore' = [plainStore EXCEPT ![c] = got.plain]
                /\ IF localQRs[id] # Null
                   THEN /\ isnap' = [isnap EXCEPT ![c] = LocalUpdate(localQRs, id, now)]
                        /\ ipc' = [ipc EXCEPT ![c] = "setItem"]
                   ELSE /\ isnap' = [isnap EXCEPT ![c] = Null]
                        /\ ipc' = [ipc EXCEPT ![c] = "ok"]
    /\ UNCHANGED <<net, incLogged>>

\* TxnCommit as a plain read-then-set: the value computed from the client's
\* snapshot is written whatever the server holds by now
TxnCommit_NoCompare(c) ==
    /\ ipc[c] = "txn"
    /\ net' = [net EXCEPT ![iid[c]] = TxnUpdate(isnap[c], now)]
    /\ ipc' = [ipc EXCEPT ![c] = "ok"]
    /\ incLogged' = [incLogged EXCEPT ![c] = @ + 1]
    /\ isnap' = [isnap EXCEPT ![c] = Null]
    /\ UNCHANGED <<encStore, plainStore, iid, scans>>

\* the server applies the transaction if the value it was computed from is
\* still the current one, and otherwise makes the client run it again
TxnCommit(c) ==
    /\ ipc[c] = "txn"
    /\ IF net[iid[c]] = isnap[c]
       THEN /\ net' = [net EXCEPT ![iid[c]] = TxnUpdate(isnap[c], now)]
            /\ ipc' = [ipc EXCEPT ![c] = "ok"]
            /\ incLogged' = [incLogged EXCEPT ![c] = @ + 1]
            /\ isnap' = [isnap EXCEPT ![c] = Null]
       ELSE /\ isnap' = [isnap EXCEPT ![c] = net[iid[c]]]
            /\ UNCHANGED <<net, ipc, incLogged>>
    /\ UNCHANGED <<encStore, plainStore, iid, scans>>

\* the transaction is rejected (no connection, no permission): the error is
\* caught and logged, 'Error incrementing scan count'
TxnFail(c) ==
    /\ ipc[c] = "txn"
    /\ ipc' = [ipc EXCEPT ![c] = "failed"]
    /\ isnap' = [isnap EXCEPT ![c] = Null]
    /\ UNCHANGED <<storeVars, iid, scans, incLogged>>

\* the local path writes the cache back
LocalSetItem(c) ==
    /\ ipc[c] = "setItem"
    /\ LET after == setItem(encStore[c], plainStore[c], cryptoOk[c], isnap[c])
       IN  /\ encStore' = [encStore EXCEPT ![c] = after.enc]
           /\ plainStore' = [plainStore EXCEPT ![c] = after.plain]
    /\ ipc' = [ipc EXCEPT ![c] = "ok"]
    /\ isnap' = [isnap EXCEPT ![c] = Null]
    /\ UNCHANGED <<net, iid, scans, incLogged>>

\* ... or localStorage.setItem throws (quota): caught and logged
LocalSetItemFail(c) ==
    /\ ipc[c] = "setItem"
    /\ ipc' = [ipc EXCEPT ![c] = "failed"]
    /\ isnap' = [isnap EXCEPT ![c] = Null]
    /\ UNCHANGED <<storeVars, iid, scans, incLogged>>

(***************************************************************************)
(* FirebaseManager.getQRCode of client c: the results the call can have.   *)
(* val: the value returned (Null when it threw), threw: it threw 'Failed   *)
(* to load QR code data', err: CryptoManager logged an error.              *)
(***************************************************************************)
getQRCode(c, id) ==
    IF fbPresent[c]
    THEN {[val |-> net[id], threw |-> FALSE, err |-> FALSE,
           enc |-> encStore[c], plain |-> plainStore[c]],
          [val |-> Null, threw |-> TRUE, err |-> FALSE,
           enc |-> encStore[c], plain |-> plainStore[c]]}
    ELSE LET got == getItem(encStore[c], plainStore[c], cryptoOk[c])
         IN  {[val |-> OrEmpty(got.val)[id], threw |-> FALSE, err |-> got.err,
               enc |-> got.enc, plain |-> got.plain]}

(***************************************************************************)
(* QRRedirectManager: the constructor and init().                          *)
(***************************************************************************)
\* getFallbackDataFromURL: the decoded 'data' parameter, or Null when there
\* is none or it cannot be decoded
getFallbackDataFromURL(encodedData) ==
    IF encodedData.kind = "data" THEN encodedData.data ELSE Null

NoOutcome == [kind |-> "none"]

\* the page is done: what it shows is recorded
Finish(result) ==
    /\ outcome' = result
    /\ shown' = Append(shown, result)
    /\ pc' = "done"

\* if (!this.qrId) { showError('Invalid QR code link...'); return; }
InitMissingId ==
    /\ pc = "start"
    /\ qrId = NoId
    /\ Finish(ErrorPage("MissingId"))
    /\ UNCHANGED <<storeVars, envVars, incVars, rateVars, genVars, qrId, fallbackData, qrData,
                   loadedFrom, consulted, warned, tracked>>

\* Primary: qrData = await FirebaseManager.getQRCode(this.qrId)
InitFirebase ==
    /\ pc = "start"
    /\ qrId # NoId
    /\ \E r \in getQRCode(Page, qrId) :
          /\ qrData' = r.val
          /\ encStore' = [encStore EXCEPT ![Page] = r.enc]
          /\ plainStore' = [plainStore EXCEPT ![Page] = r.plain]
          /\ warned' = warned \cup (IF r.threw THEN {"firebase"} ELSE {})
                              \cup (IF r.err THEN {"encrypted"} ELSE {})
          /\ loadedFrom' = IF r.val # Null THEN "firebase" ELSE loadedFrom
    /\ consulted' = Append(consulted, "firebase")
    /\ pc' = "encrypted"
    /\ UNCHANGED <<net, envVars, incVars, rateVars, genVars, qrId, fallbackData, tracked,
                   outcome, shown>>

\* Fallback 1: if (!qrData) the encrypted localStorage
InitEncrypted ==
    /\ pc = "encrypted"
    /\ IF qrData = Null
       THEN LET got == getItem(encStore[Page], plainStore[Page], cryptoOk[Page])
                localQRs == OrEmpty(got.val)
            IN  /\ qrData' = localQRs[qrId]
                /\ encStore' = [encStore EXCEPT ![Page] = got.enc]
                /\ plainStore' = [plainStore EXCEPT ![Page] = got.plain]
                /\ warned' = warned \cup (IF got.err THEN {"encrypted"} ELSE {})
                /\ loadedFrom' = IF localQRs[qrId] # Null THEN "encrypted" ELSE loadedFrom
                /\ consulted' = Append(consulted, "encrypted")
       ELSE UNCHANGED <<qrData, encStore, plainStore, warned, loadedFrom, consulted>>
    /\ pc' = "legacy"
    /\ UNCHANGED <<net, envVars, incVars, rateVars, genVars, qrId, fallbackData, tracked,
                   outcome, shown>>

\* Fallback 2: if (!qrData) the unencrypted localStorage
InitLegacy ==
    /\ pc = "legacy"
    /\ IF qrData = Null
       THEN LET unencryptedData == plainStore[Page]
            IN  /\ qrData' = IF unencryptedData.kind = "data"
                             THEN unencryptedData.data[qrId] ELSE Null
                /\ warned' = warned \cup
                             (IF unencryptedData = Garbled THEN {"legacy"} ELSE {})
                /\ loadedFrom' = IF unencryptedData.kind = "data"
                                    /\ unencryptedData.data[qrId] # Null
                                 THEN "legacy" ELSE loadedFrom
                /\ consulted' = Append(consulted, "legacy")
       ELSE UNCHANGED <<qrData, warned, loadedFrom, consulted>>
    /\ pc' = "check"
    /\ UNCHANGED <<storeVars, envVars, incVars, rateVars, genVars, qrId, fallbackData, tracked,
                   outcome, shown>>

\* InitCheck without its test: init() goes on with no qrData
InitCheck_NoGuard ==
    /\ pc = "check"
    /\ pc' = "track"
    /\ UNCHANGED <<storeVars, envVars, incVars, rateVars, genVars, qrId, fallbackData, qrData,
                   loadedFrom, consulted, warned, tracked, outcome, shown>>

\* if (!qrData) { showError('QR code content not found...'); return; }
InitCheck ==
    /\ pc = "check"
    /\ IF qrData = Null
       THEN Finish(ErrorPage("NotFound"))
       ELSE pc' = "track" /\ UNCHANGED <<outcome, shown>>
    /\ UNCHANGED <<storeVars, envVars, incVars, rateVars, genVars, qrId, fallbackData, qrData,
                   loadedFrom, consulted, warned, tracked>>

\* try { await FirebaseManager.incrementScanCount(this.qrId) }: the call starts
TrackScan ==
    /\ pc = "track"
    /\ incrementScanCount(Page, qrId)
    /\ pc' = "tracking"
    /\ UNCHANGED <<envVars, rateVars, genVars, qrId, fallbackData, qrData, loadedFrom, consulted,
                   warned, tracked, outcome, shown>>

\* TrackDone with the error of incrementScanCount thrown on into the outer
\* catch of init(), which shows 'Unable to process your request'
TrackDone_Surfaces ==
    /\ pc = "tracking"
    /\ ipc[Page] \in {"ok", "failed"}
    /\ tracked' = ipc[Page]
    /\ ipc' = [ipc EXCEPT ![Page] = "idle"]
    /\ IF ipc[Page] = "failed"
       THEN Finish(ErrorPage("Unable"))
       ELSE pc' = "preview" /\ UNCHANGED <<outcome, shown>>
    /\ UNCHANGED <<storeVars, envVars, rateVars, genVars, iid, isnap, scans, incLogged, qrId,
                   fallbackData, qrData, loadedFrom, consulted, warned>>

\* TrackDone without the await: init() goes on while incrementScanCount is
\* still running
TrackDone_NoAwait ==
    /\ pc = "tracking"
    /\ tracked' = ipc[Page]
    /\ pc' = "preview"
    /\ UNCHANGED <<storeVars, envVars, rateVars, genVars, incVars, qrId,
                   fallbackData, qrData, loadedFrom, consulted, warned, outcome, shown>>

\* ... and returns; it has caught and logged its own error, if any
TrackDone ==
    /\ pc = "tracking"
    /\ ipc[Page] \in {"ok", "failed"}
    /\ tracked' = ipc[Page]
    /\ ipc' = [ipc EXCEPT ![Page] = "idle"]
    /\ pc' = "preview"
    /\ UNCHANGED <<storeVars, envVars, rateVars, genVars, iid, isnap, scans, incLogged, qrId,
                   fallbackData, qrData, loadedFrom, consulted, warned, outcome, shown>>

\* the preview, then setTimeout(() => this.redirectToOriginal(qrData.originalText));
\* reading qrData.originalText of no qrData throws into the outer catch
Redirect ==
    /\ pc = "preview"
    /\ Finish(IF qrData = Null THEN ErrorPage("Unable")
              ELSE redirectToOriginal(qrData.originalText))
    /\ UNCHANGED <<storeVars, envVars, incVars, rateVars, genVars, qrId, fallbackData, qrData,
                   loadedFrom, consulted, warned, tracked>>

\* the same link is scanned again: the page loads anew, the Firebase SDK
\* loads or does not
Reload ==
    /\ pc = "done"
    /\ Len(shown) < MaxLoads
    /\ pc' = "start"
    /\ qrData' = Null
    /\ loadedFrom' = "none"
    /\ consulted' = <<>>
    /\ warned' = {}
    /\ tracked' = "none"
    /\ outcome' = NoOutcome
    /\ \E b \in BOOLEAN : fbPresent' = [fbPresent EXCEPT ![Page] = b]
    /\ UNCHANGED <<storeVars, incVars, rateVars, genVars, now, cryptoOk, qrId, fallbackData, shown>>

\* the steps of the page's incrementScanCount call
PageTxnCommit == TxnCommit(Page) /\ UNCHANGED <<envVars, pageVars, rateVars, genVars>>
PageTxnFail == TxnFail(Page) /\ UNCHANGED <<envVars, pageVars, rateVars, genVars>>
PageLocalSetItem == LocalSetItem(Page) /\ UNCHANGED <<envVars, pageVars, rateVars, genVars>>
PageLocalSetItemFail == LocalSetItemFail(Page) /\ UNCHANGED <<envVars, pageVars, rateVars, genVars>>

(***************************************************************************)
(* Spec: one device scans a link, MaxLoads times.                          *)
(***************************************************************************)
SampleTexts == {<<HttpsTok, DomainTok>>, <<DomainTok>>, <<JsTok, WordTok>>,
                <<WordTok, SpaceTok, WordTok>>}

\* nothing has been asked of generateUniqueId, of the local cache or of
\* onScanCountChange yet
ExtFresh ==
    /\ randomVal = <<>>
    /\ idChars = <<>>
    /\ reads = <<>>
    /\ cpc = [r \in Requests |-> "idle"]
    /\ cid = [r \in Requests |-> NoId]
    /\ csnap = [r \in Requests |-> Null]
    /\ scanCountListener = 0
    /\ listening = {}
    /\ timers = {}
    /\ disposed = {}
    /\ called = <<>>

\* no incrementScanCount call, no rate-limited request yet
Fresh ==
    /\ ipc = [c \in Clients |-> "idle"]
    /\ iid = [c \in Clients |-> NoId]
    /\ isnap = [c \in Clients |-> Null]
    /\ scans = [c \in Clients |-> 0]
    /\ incLogged = [c \in Clients |-> 0]
    /\ requests = <<>>
    /\ callLog = <<>>
    /\ remLog = <<>>
    /\ databaseAvailable = TRUE
    /\ storageOk = TRUE
    /\ gpc = "idle"
    /\ gtext = <<>>
    /\ gname = <<>>
    /\ existingQR = Null
    /\ dupError = FALSE
    /\ gid = NoId
    /\ gsnap = Null
    /\ genOutcome = "none"
    /\ lastRead = Null
    /\ ops = <<>>
    /\ written = <<>>
    /\ ExtFresh

\* the redirect page before init()
PageStart ==
    /\ pc = "start"
    /\ qrData = Null
    /\ loadedFrom = "none"
    /\ consulted = <<>>
    /\ warned = {}
    /\ tracked = "none"
    /\ outcome = NoOutcome
    /\ shown = <<>>

Init ==
    /\ Fresh
    /\ PageStart
    /\ now = 2
    /\ \E text \in SampleTexts :
         LET record == NewRecord("qr1", <<WordTok>>, text, 1)
             held == [i \in AllIds |-> IF i \in Ids THEN record ELSE Null]
             payload == [text |-> sanitizeText(text), name |-> <<WordTok>>]
         IN  /\ net \in {EmptyMap, held}
             /\ \E enc \in {Absent, Garbled, Stored(EmptyMap), Stored(held)} :
                   encStore = [c \in Clients |-> IF c = Page THEN enc ELSE Absent]
             /\ \E plain \in {Absent, Garbled, Stored(EmptyMap), Stored(held)} :
                   plainStore = [c \in Clients |-> IF c = Page THEN plain ELSE Absent]
             /\ \E encodedData \in {Absent, Garbled, Stored(payload)} :
                   fallbackData = getFallbackDataFromURL(encodedData)
    /\ qrId \in Ids \cup {NoId}
    /\ \E b \in BOOLEAN : fbPresent = [c \in Clients |-> IF c = Page THEN b ELSE TRUE]
    /\ \E b \in BOOLEAN : cryptoOk = [c \in Clients |-> IF c = Page THEN b ELSE TRUE]

Next ==
    \/ InitMissingId
    \/ InitFirebase
    \/ InitEncrypted
    \/ InitLegacy
    \/ InitCheck
    \/ TrackScan
    \/ PageTxnCommit
    \/ PageTxnFail
    \/ PageLocalSetItem
    \/ PageLocalSetItemFail
    \/ TrackDone
    \/ Redirect
    \/ Reload

Spec == Init /\ [][Next]_vars

(***************************************************************************)
(* SpecUrl: the last step of init(), on every text of up to MaxTokens       *)
(* tokens as the content of the record the page has loaded from Firebase.  *)
(***************************************************************************)
InitUrl ==
    /\ Fresh
    /\ now = 2
    /\ \E text \in Texts :
         LET record == NewRecord("qr1", <<WordTok>>, text, 1)
         IN  /\ qrData = record
             /\ net = [i \in Ids |-> TxnUpdate(record, now)]
    /\ encStore = [c \in Clients |-> Absent]
    /\ plainStore = [c \in Clients |-> Absent]
    /\ fbPresent = [c \in Clients |-> TRUE]
    /\ cryptoOk = [c \in Clients |-> TRUE]
    /\ pc = "preview"
    /\ qrId = "qr1"
    /\ fallbackData = Null
    /\ loadedFrom = "firebase"
    /\ consulted = <<"firebase">>
    /\ warned = {}
    /\ tracked = "ok"
    /\ outcome = NoOutcome
    /\ shown = <<>>

NextUrl == Redirect

SpecUrl == InitUrl /\ [][NextUrl]_vars

(***************************************************************************)
(* SpecConc: NumClients clients, each with the Firebase SDK loaded, call   *)
(* incrementScanCount on the same record, MaxScans times each.             *)
(***************************************************************************)
InitConc ==
    /\ Fresh
    /\ now = 2
    /\ net = [i \in Ids |-> NewRecord(i, <<WordTok>>, <<HttpsTok, DomainTok>>, 1)]
    /\ encStore = [c \in Clients |-> Absent]
    /\ plainStore = [c \in Clients |-> Absent]
    /\ fbPresent = [c \in Clients |-> TRUE]
    /\ cryptoOk = [c \in Clients |-> TRUE]
    /\ pc = "done"
    /\ qrId = "qr1"
    /\ fallbackData = Null
    /\ qrData = Null
    /\ loadedFrom = "none"
    /\ consulted = <<>>
    /\ warned = {}
    /\ tracked = "none"
    /\ outcome = NoOutcome
    /\ shown = <<>>

\* client c scans: its incrementScanCount call starts
Scan(c) ==
    /\ scans[c] < MaxScans
    /\ incrementScanCount(c, "qr1")
    /\ UNCHANGED <<envVars, pageVars, rateVars, genVars>>

ScanTxnCommit(c) == TxnCommit(c) /\ UNCHANGED <<envVars, pageVars, rateVars, genVars>>
ScanTxnFail(c) == TxnFail(c) /\ UNCHANGED <<envVars, pageVars, rateVars, genVars>>

\* the call has returned
ScanReturn(c) ==
    /\ ipc[c] \in {"ok", "failed"}
    /\ ipc' = [ipc EXCEPT ![c] = "idle"]
    /\ UNCHANGED <<storeVars, envVars, pageVars, rateVars, genVars, iid, isnap, scans, incLogged>>

NextConc ==
    \E c \in Clients : Scan(c) \/ ScanTxnCommit(c) \/ ScanTxnFail(c) \/ ScanReturn(c)

SpecConc == InitConc /\ [][NextConc]_vars

(***************************************************************************)
(* SpecRate: RateLimiter, the 'anonymous' user.                            *)
(***************************************************************************)
RECURSIVE Filter(_, _)
\* userRequests.filter(time => at - time < this.timeWindow)
Filter(userRequests, at) ==
    IF userRequests = <<>> THEN <<>>
    ELSE IF at - Head(userRequests) < timeWindow
         THEN <<Head(userRequests)>> \o Filter(Tail(userRequests), at)
         ELSE Filter(Tail(userRequests), at)

\* getRemainingRequests without the filter: every recorded request counts
getRemainingRequests_Unpruned ==
    LET left == maxRequests - Len(requests)
    IN  IF left > 0 THEN left ELSE 0

\* RateLimiter.getRemainingRequests
getRemainingRequests ==
    LET recentRequests == Filter(requests, now)
        left == maxRequests - Len(recentRequests)
    IN  IF left > 0 THEN left ELSE 0

\* canMakeRequest with '>' for '>=': one request too many gets through
canMakeRequest_OffByOne ==
    /\ Len(callLog) < MaxCalls
    /\ LET recentRequests == Filter(requests, now)
       IN  IF Len(recentRequests) > maxRequests
           THEN /\ callLog' = Append(callLog, [time |-> now, ok |-> FALSE])
                /\ UNCHANGED requests
           ELSE /\ callLog' = Append(callLog, [time |-> now, ok |-> TRUE])
                /\ requests' = Append(recentRequests, now)
    /\ UNCHANGED <<storeVars, envVars, incVars, pageVars>>

\* canMakeRequest that records the refused attempt as well
canMakeRequest_RecordsDenied ==
    /\ Len(callLog) < MaxCalls
    /\ LET recentRequests == Filter(requests, now)
       IN  /\ callLog' = Append(callLog, [time |-> now,
                                          ok |-> Len(recentRequests) < maxRequests])
           /\ requests' = Append(recentRequests, now)
    /\ UNCHANGED <<storeVars, envVars, incVars, pageVars>>

\* RateLimiter.canMakeRequest
canMakeRequest ==
    /\ Len(callLog) < MaxCalls
    /\ LET recentRequests == Filter(requests, now)
       IN  IF Len(recentRequests) >= maxRequests
           THEN /\ callLog' = Append(callLog, [time |-> now, ok |-> FALSE])
                /\ UNCHANGED requests
           ELSE /\ callLog' = Append(callLog, [time |-> now, ok |-> TRUE])
                /\ requests' = Append(recentRequests, now)
    /\ UNCHANGED <<storeVars, envVars, incVars, pageVars>>

\* time passes
Tick ==
    /\ now + TickMs <= HorizonMs
    /\ now' = now + TickMs
    /\ UNCHANGED <<storeVars, fbPresent, cryptoOk, incVars, pageVars, rateVars, genVars>>

InitRate ==
    /\ Fresh
    /\ now = 0
    /\ net = EmptyMap
    /\ encStore = [c \in Clients |-> Absent]
    /\ plainStore = [c \in Clients |-> Absent]
    /\ fbPresent = [c \in Clients |-> TRUE]
    /\ cryptoOk = [c \in Clients |-> TRUE]
    /\ pc = "done"
    /\ qrId = NoId
    /\ fallbackData = Null
    /\ qrData = Null
    /\ loadedFrom = "none"
    /\ consulted = <<>>
    /\ warned = {}
    /\ tracked = "none"
    /\ outcome = NoOutcome
    /\ shown = <<>>

\* a getRemainingRequests call: its result is noted, nothing else happens
RemainingCall ==
    /\ remLog' = <<[time |-> now, left |-> getRemainingRequests]>>
    /\ UNCHANGED <<storeVars, envVars, incVars, pageVars, rateVars, databaseAvailable,
                   storageOk, extVars, gpc, gtext, gname, existingQR, dupError, gid, gsnap, genOutcome,
                   lastRead, ops, written>>

NextRate == (canMakeRequest /\ UNCHANGED genVars) \/ RemainingCall \/ Tick

SpecRate == InitRate /\ [][NextRate]_vars

(***************************************************************************)
(* FirebaseManager.checkForDuplicate and createQRCode, as the generator    *)
(* page (js/qr-generator.js) of this device calls them.  The page runs in  *)
(* the browser of client Page and shares its localStorage.                 *)
(***************************************************************************)
\* .limitToLast(50)
limitToLast == 50
\* this.selectedLogo, the default company logo
selectedLogo == [kind |-> "logo", path |-> "assets/holyLogo.png"]

\* what the user types into the text and the name field
GenInputs ==
    {<<<<HttpsTok, DomainTok>>, <<WordTok>>>>,
     <<<<HttpsTok, DomainTok>>, <<DomainTok>>>>,
     <<<<JsTok, WordTok>>, <<WordTok>>>>}

\* a validateQRInput without the two length limits
validateQRInput_NoLimit(text, name) ==
    /\ Trim(text) # <<>>
    /\ Trim(name) # <<>>
    /\ ~Has(text, JsTok) /\ ~Has(text, VbsTok)
    /\ ~Has(name, JsTok) /\ ~Has(name, VbsTok)

\* SecurityUtils.validateQRInput does not throw
validateQRInput(text, name) ==
    /\ Trim(text) # <<>>
    /\ StringLength(text) <= maxTextLength
    /\ Trim(name) # <<>>
    /\ StringLength(name) <= maxNameLength
    /\ ~Has(text, JsTok) /\ ~Has(text, VbsTok)
    /\ ~Has(name, JsTok) /\ ~Has(name, VbsTok)

\* FirebaseStatus.isAvailable(): firebaseInitialized && databaseAvailable
isAvailable == fbPresent[Page] /\ databaseAvailable

\* the tier a FirebaseManager method takes:
\* typeof firebase !== 'undefined' && window.database
Tier == IF fbPresent[Page] THEN "firebase" ELSE "local"

\* a FirebaseManager call of the generator page is noted
LogOp(op) == ops' = <<[op |-> op, tier |-> Tier, signal |-> isAvailable]>>

\* the timestamp and the random part an id was made of
IdParts(id) == CHOOSE p \in Times \X Randoms : generateUniqueId(p[1], p[2]) = id

\* Firebase orders children of equal createdAt by key
KeyLess(a, b) ==
    /\ a \in GenIds /\ b \in GenIds
    /\ \/ IdParts(a)[1] < IdParts(b)[1]
       \/ IdParts(a)[1] = IdParts(b)[1] /\ IdParts(a)[2] < IdParts(b)[2]

\* orderByChild('createdAt'): child b comes after child a
ChildAfter(data, a, b) ==
    \/ data[a].createdAt < data[b].createdAt
    \/ data[a].createdAt = data[b].createdAt /\ KeyLess(a, b)

\* the children limitToLast(50) keeps
LastChildren(data) ==
    {a \in DOMAIN data :
        /\ data[a] # Null
        /\ Cardinality({b \in DOMAIN data : data[b] # Null /\ ChildAfter(data, a, b)})
              < limitToLast}

\* a comparison that forgets the name
IsDuplicate_TextOnly(child, originalText, name) ==
    child.originalText = originalText

\* qrData.originalText === originalText && qrData.name === name
IsDuplicate(child, originalText, name) ==
    child.originalText = originalText /\ child.name = name

\* the Firebase path: forEach runs in ascending order and keeps the last match
FirebaseDuplicate(data, originalText, name) ==
    LET found == {a \in LastChildren(data) : IsDuplicate(data[a], originalText, name)}
    IN  IF found = {} THEN Null
        ELSE data[CHOOSE a \in found : \A b \in found \ {a} : ChildAfter(data, b, a)]

\* the place of a key in the object 'qr-codes': keys keep the order in which
\* createQRCode added them
FirstWritten(id) ==
    IF \E k \in 1 .. Len(written) : written[k].id = id
    THEN CHOOSE k \in 1 .. Len(written) :
            /\ written[k].id = id
            /\ \A j \in 1 .. k - 1 : written[j].id # id
    ELSE 0

\* the local path: Object.entries runs in key order and returns the first match
LocalDuplicate(localQRs, originalText, name) ==
    LET found == {a \in DOMAIN localQRs :
                     localQRs[a] # Null /\ IsDuplicate(localQRs[a], originalText, name)}
    IN  IF found = {} THEN Null
        ELSE localQRs[CHOOSE a \in found :
                         \A b \in found \ {a} : FirstWritten(a) < FirstWritten(b)]

\* FirebaseManager.checkForDuplicate: the results the call can have, with the
\* localStorage it leaves (getItem migrates); an error inside gives null
checkForDuplicate(originalText, name) ==
    IF fbPresent[Page]
    THEN {[val |-> FirebaseDuplicate(net, originalText, name), err |-> FALSE,
           enc |-> encStore[Page], plain |-> plainStore[Page]],
          [val |-> Null, err |-> TRUE,
           enc |-> encStore[Page], plain |-> plainStore[Page]]}
    ELSE LET got == getItem(encStore[Page], plainStore[Page], cryptoOk[Page])
         IN  {[val |-> LocalDuplicate(OrEmpty(got.val), originalText, name),
               err |-> got.err, enc |-> got.enc, plain |-> got.plain]}

(***************************************************************************)
(* QRGenerator.generateQRCode.                                             *)
(***************************************************************************)
\* a generateQRCode that alerts when the limiter refuses but does not return
GenStart_DeniedGoesOn(text, name) ==
    /\ gpc = "idle"
    /\ canMakeRequest
    /\ gtext' = Trim(text)
    /\ gname' = Trim(name)
    /\ lastRead' = Null
    /\ IF ~callLog'[Len(callLog')].ok
       THEN remLog' = <<[time |-> now, left |-> getRemainingRequests]>>
       ELSE UNCHANGED remLog
    /\ IF ~validateQRInput(Trim(text), Trim(name))
       THEN /\ genOutcome' = "invalid"
            /\ UNCHANGED <<gpc, ops>>
       ELSE /\ genOutcome' = "none"
            /\ gpc' = "dup"
            /\ LogOp("checkForDuplicate")
    /\ UNCHANGED <<databaseAvailable, storageOk, extVars, existingQR, dupError, gid, gsnap, written>>

\* generateQRCode up to its first await: the rate limit, the validation, and
\* the call of checkForDuplicate
GenStart(text, name) ==
    /\ gpc = "idle"
    /\ canMakeRequest
    /\ gtext' = Trim(text)
    /\ gname' = Trim(name)
    /\ lastRead' = Null
    /\ IF ~callLog'[Len(callLog')].ok
       THEN /\ remLog' = <<[time |-> now, left |-> getRemainingRequests]>>
            /\ genOutcome' = "denied"
            /\ UNCHANGED <<gpc, ops>>
       ELSE IF ~validateQRInput(Trim(text), Trim(name))
       THEN /\ genOutcome' = "invalid"
            /\ UNCHANGED <<gpc, ops, remLog>>
       ELSE /\ genOutcome' = "none"
            /\ gpc' = "dup"
            /\ LogOp("checkForDuplicate")
            /\ UNCHANGED remLog
    /\ UNCHANGED <<databaseAvailable, storageOk, extVars, existingQR, dupError, gid, gsnap, written>>

\* FirebaseManager.createQRCode up to its write: the id, the qrData object,
\* and on the local path the read of 'qr-codes' from the localStorage enc, plain
createQRCodeCall(enc, plain, randomStr) ==
    LET newId == generateUniqueId(now, randomStr)
        newData == [NewRecord(newId, gname, gtext, now) EXCEPT !.logoPath = selectedLogo]
        got == getItem(enc, plain, cryptoOk[Page])
        localQRs == OrEmpty(got.val)
    IN  /\ gid' = newId
        /\ LogOp("createQRCode")
        /\ gpc' = "write"
        /\ IF fbPresent[Page]
           THEN /\ gsnap' = newData
                /\ encStore' = [encStore EXCEPT ![Page] = enc]
                /\ plainStore' = [plainStore EXCEPT ![Page] = plain]
           ELSE /\ gsnap' = [localQRs EXCEPT ![newId] = newData]
                /\ encStore' = [encStore EXCEPT ![Page] = got.enc]
                /\ plainStore' = [plainStore EXCEPT ![Page] = got.plain]

\* the subscriptions made so far are numbered; the one held in
\* this.scanCountListener is the last
NewSubscription == Cardinality(disposed) + (IF scanCountListener = 0 THEN 0 ELSE 1) + 1

\* QRGenerator.startScanCountListener(id): the cleanup function of the
\* subscription held is called (on Firebase qrRef.off('value'), on the local
\* path a function that does nothing), then onScanCountChange subscribes: a
\* 'value' listener on Firebase, a setTimeout on the local path
startScanCountListener(id) ==
    LET old == scanCountListener
        sub == [n |-> NewSubscription, id |-> id]
        kept == IF old = 0 THEN listening
                ELSE {l \in listening :
                         \A o \in listening : o.n = old => l.id # o.id}
    IN  /\ disposed' = IF old = 0 THEN disposed ELSE disposed \cup {old}
        /\ scanCountListener' = sub.n
        /\ IF fbPresent[Page]
           THEN listening' = kept \cup {sub} /\ UNCHANGED timers
           ELSE timers' = timers \cup {sub} /\ UNCHANGED listening

\* nothing of the listeners changes
NoListenerChange == UNCHANGED <<scanCountListener, listening, timers, disposed>>

\* the variables of extVars that generateQRCode never touches
genExtVars == <<randomVal, idChars, reads, cpc, cid, csnap, called>>

\* a generateQRCode that gives up when checkForDuplicate's read fails
GenDupResult_ErrorBlocks ==
    /\ gpc = "dup"
    /\ \E r \in checkForDuplicate(gtext, gname) :
          /\ existingQR' = r.val
          /\ dupError' = r.err
          /\ IF r.err
             THEN /\ gpc' = "idle"
                  /\ genOutcome' = "failed"
                  /\ encStore' = [encStore EXCEPT ![Page] = r.enc]
                  /\ plainStore' = [plainStore EXCEPT ![Page] = r.plain]
                  /\ UNCHANGED <<gid, gsnap, ops>>
             ELSE IF r.val # Null
             THEN /\ gpc' = "confirm"
                  /\ encStore' = [encStore EXCEPT ![Page] = r.enc]
                  /\ plainStore' = [plainStore EXCEPT ![Page] = r.plain]
                  /\ UNCHANGED <<gid, gsnap, ops, genOutcome>>
             ELSE /\ \E randomStr \in Randoms : createQRCodeCall(r.enc, r.plain, randomStr)
                  /\ UNCHANGED genOutcome
    /\ UNCHANGED <<net, envVars, incVars, pageVars, rateVars, remLog, databaseAvailable,
                   storageOk, extVars, gtext, gname, lastRead, written>>

\* checkForDuplicate returns: a duplicate opens the confirm dialog, none
\* lets createQRCode start
GenDupResult ==
    /\ gpc = "dup"
    /\ \E r \in checkForDuplicate(gtext, gname) :
          /\ existingQR' = r.val
          /\ dupError' = r.err
          /\ IF r.val # Null
             THEN /\ gpc' = "confirm"
                  /\ encStore' = [encStore EXCEPT ![Page] = r.enc]
                  /\ plainStore' = [plainStore EXCEPT ![Page] = r.plain]
                  /\ UNCHANGED <<gid, gsnap, ops>>
             ELSE \E randomStr \in Randoms : createQRCodeCall(r.enc, r.plain, randomStr)
    /\ UNCHANGED <<net, envVars, incVars, pageVars, rateVars, remLog, databaseAvailable,
                   storageOk, extVars, gtext, gname, genOutcome, lastRead, written>>

\* the user answers the dialog: OK loads the existing code (loadQRCode reads
\* it with getQRCode), Cancel creates a duplicate
GenConfirm(confirmCreate) ==
    /\ gpc = "confirm"
    /\ IF confirmCreate
       THEN /\ \E r \in getQRCode(Page, existingQR.id) :
                  /\ encStore' = [encStore EXCEPT ![Page] = r.enc]
                  /\ plainStore' = [plainStore EXCEPT ![Page] = r.plain]
                  /\ IF r.val # Null /\ ~r.threw
                     THEN startScanCountListener(existingQR.id)
                     ELSE NoListenerChange
            /\ LogOp("getQRCode")
            /\ genOutcome' = "loaded"
            /\ gpc' = "idle"
            /\ UNCHANGED <<gid, gsnap>>
       ELSE /\ \E randomStr \in Randoms :
                  createQRCodeCall(encStore[Page], plainStore[Page], randomStr)
            /\ NoListenerChange
            /\ UNCHANGED genOutcome
    /\ UNCHANGED <<net, envVars, incVars, pageVars, rateVars, remLog, databaseAvailable,
                   storageOk, genExtVars, gtext, gname, existingQR, dupError, lastRead, written>>

\* the record createQRCode stores: on Firebase createdAt is the server's time
StoredRecord ==
    IF fbPresent[Page] THEN [gsnap EXCEPT !.createdAt = now] ELSE gsnap[gid]

\* createQRCode's write goes through: ref.set resolves once the server has
\* the value, CryptoManager.setItem stores the object; createQRCode returns
\* the id
GenWrite ==
    /\ gpc = "write"
    /\ IF fbPresent[Page]
       THEN /\ databaseAvailable
            /\ net' = [net EXCEPT ![gid] = StoredRecord]
            /\ UNCHANGED <<encStore, plainStore>>
       ELSE /\ storageOk
            /\ LET after == setItem(encStore[Page], plainStore[Page], cryptoOk[Page], gsnap)
               IN  /\ encStore' = [encStore EXCEPT ![Page] = after.enc]
                   /\ plainStore' = [plainStore EXCEPT ![Page] = after.plain]
            /\ UNCHANGED net
    /\ written' = Append(written, [id |-> gid, time |-> now, tier |-> Tier,
                                   call |-> Len(callLog), record |-> StoredRecord])
    /\ gpc' = "display"
    /\ UNCHANGED <<envVars, incVars, pageVars, rateVars, remLog, databaseAvailable,
                   storageOk, extVars, gtext, gname, existingQR, dupError, gid, gsnap, genOutcome, lastRead, ops>>

\* the write throws (ref.set is rejected, localStorage is full): createQRCode
\* throws 'Failed to save QR code', generateQRCode alerts and ends
GenWriteFail ==
    /\ gpc = "write"
    /\ fbPresent[Page] \/ ~storageOk
    /\ genOutcome' = "failed"
    /\ gpc' = "idle"
    /\ UNCHANGED <<storeVars, envVars, incVars, pageVars, rateVars, remLog,
                   databaseAvailable, storageOk, extVars, gtext, gname, existingQR, dupError, gid, gsnap,
                   lastRead, ops, written>>

\* the rest of generateQRCode: the redirect URL with its base64 data, the
\* canvas, the display, startScanCountListener(qrId); generateQRCode ends
GenDisplay ==
    /\ gpc = "display"
    /\ startScanCountListener(gid)
    /\ genOutcome' = "created"
    /\ gpc' = "idle"
    /\ UNCHANGED <<storeVars, envVars, incVars, pageVars, rateVars, remLog,
                   databaseAvailable, storageOk, gtext, gname, existingQR, dupError, gid,
                   gsnap, lastRead, ops, written, genExtVars>>

\* ... or btoa or createQRCanvas throws (a character outside Latin-1, a URL
\* longer than a QR code holds, no canvas): generateQRCode alerts 'Failed to
\* generate QR code' and ends
GenDisplayFail ==
    /\ gpc = "display"
    /\ genOutcome' = "failed"
    /\ gpc' = "idle"
    /\ UNCHANGED <<storeVars, envVars, incVars, pageVars, rateVars, remLog,
                   databaseAvailable, storageOk, gtext, gname, existingQR, dupError, gid,
                   gsnap, lastRead, ops, written, extVars>>

\* the page reads the record it has just created: getQRCode(qrId)
ReadBack ==
    /\ gpc = "idle"
    /\ genOutcome = "created"
    /\ lastRead = Null
    /\ \E r \in getQRCode(Page, gid) :
          /\ lastRead' = [kind |-> "read", val |-> r.val, threw |-> r.threw]
          /\ encStore' = [encStore EXCEPT ![Page] = r.enc]
          /\ plainStore' = [plainStore EXCEPT ![Page] = r.plain]
    /\ LogOp("getQRCode")
    /\ UNCHANGED <<net, envVars, incVars, pageVars, rateVars, remLog, databaseAvailable,
                   storageOk, extVars, gpc, gtext, gname, existingQR, dupError, gid, gsnap, genOutcome,
                   written>>

\* the '.info/connected' listener: the connection is lost or comes back
ConnectionChange ==
    /\ fbPresent[Page]
    /\ databaseAvailable' = ~databaseAvailable
    /\ UNCHANGED <<storeVars, envVars, incVars, pageVars, rateVars, remLog, storageOk, extVars,
                   gpc, gtext, gname, existingQR, dupError, gid, gsnap, genOutcome, lastRead, ops,
                   written>>

\* a code this page created is scanned in another tab of the same browser:
\* its redirect page calls incrementScanCount
GenScan ==
    /\ scans[Page] < MaxScans
    /\ \E k \in 1 .. Len(written) : incrementScanCount(Page, written[k].id)
    /\ UNCHANGED <<envVars, pageVars, rateVars, genVars>>

\* that incrementScanCount call returns
GenScanReturn ==
    /\ ipc[Page] \in {"ok", "failed"}
    /\ ipc' = [ipc EXCEPT ![Page] = "idle"]
    /\ UNCHANGED <<storeVars, envVars, pageVars, rateVars, genVars, iid, isnap, scans,
                   incLogged>>

(***************************************************************************)
(* SpecGen: the generator page handles MaxGen generateQRCode calls, one    *)
(* after the other.                                                        *)
(***************************************************************************)
InitGen ==
    /\ remLog = <<>>
    /\ requests = <<>>
    /\ callLog = <<>>
    /\ ipc = [c \in Clients |-> "idle"]
    /\ iid = [c \in Clients |-> NoId]
    /\ isnap = [c \in Clients |-> Null]
    /\ scans = [c \in Clients |-> 0]
    /\ incLogged = [c \in Clients |-> 0]
    /\ gpc = "idle"
    /\ gtext = <<>>
    /\ gname = <<>>
    /\ existingQR = Null
    /\ dupError = FALSE
    /\ gid = NoId
    /\ gsnap = Null
    /\ genOutcome = "none"
    /\ lastRead = Null
    /\ ops = <<>>
    /\ written = <<>>
    /\ ExtFresh
    /\ now = 0
    /\ net = EmptyMap
    /\ \E enc \in {Absent, Garbled} :
          encStore = [c \in Clients |-> IF c = Page THEN enc ELSE Absent]
    /\ plainStore = [c \in Clients |-> Absent]
    /\ \E b \in BOOLEAN : fbPresent = [c \in Clients |-> IF c = Page THEN b ELSE TRUE]
    /\ \E b \in BOOLEAN : cryptoOk = [c \in Clients |-> IF c = Page THEN b ELSE TRUE]
    /\ databaseAvailable = fbPresent[Page]
    /\ storageOk \in BOOLEAN
    \* what the Firebase path never touches is left at its plain value
    /\ fbPresent[Page] => (encStore[Page] = Absent /\ cryptoOk[Page])
    /\ ~storageOk => (encStore[Page] = Absent /\ cryptoOk[Page])
    /\ pc = "done"
    /\ qrId = NoId
    /\ fallbackData = Null
    /\ qrData = Null
    /\ loadedFrom = "none"
    /\ consulted = <<>>
    /\ warned = {}
    /\ tracked = "none"
    /\ outcome = NoOutcome
    /\ shown = <<>>

GenRequest == \E input \in GenInputs : Len(callLog) < MaxGen /\ GenStart(input[1], input[2])
GenAnswer == \E confirmCreate \in BOOLEAN : GenConfirm(confirmCreate)

\* time passes between two generateQRCode calls
GenTick == gpc = "idle" /\ now < MaxGenTicks * TickMs /\ Tick

NextGen ==
    \/ GenDisplay
    \/ GenDisplayFail
    \/ GenRequest
    \/ GenDupResult
    \/ GenAnswer
    \/ GenWrite
    \/ GenWriteFail
    \/ ReadBack
    \/ ConnectionChange
    \/ GenTick

SpecGen == InitGen /\ [][NextGen]_vars

(***************************************************************************)
(* SpecScan: the generator page creates codes of one text and name while   *)
(* the codes it has created are scanned in other tabs of the same browser. *)
(***************************************************************************)
ScanRequest == Len(callLog) < MaxGen /\ GenStart(<<HttpsTok, DomainTok>>, <<WordTok>>)

NextScan ==
    \/ GenDisplay
    \/ GenDisplayFail
    \/ ScanRequest
    \/ GenDupResult
    \/ GenAnswer
    \/ GenWrite
    \/ GenWriteFail
    \/ GenScan
    \/ PageTxnCommit
    \/ PageTxnFail
    \/ PageLocalSetItem
    \/ PageLocalSetItemFail
    \/ GenScanReturn

SpecScan == InitGen /\ [][NextScan]_vars

(***************************************************************************)
(* SpecLimit: one page load of the generator, local tier, its user asks    *)
(* MaxCalls times for a code of one text and name and answers the dialog   *)
(* with Cancel; time passes between the calls and while the dialog is open *)
(* (the store answers within one step of the clock).                       *)
(***************************************************************************)
InitLimit ==
    /\ InitGen
    /\ ~fbPresent[Page]
    /\ cryptoOk[Page]
    /\ storageOk
    /\ encStore[Page] = Absent

LimitRequest == Len(callLog) < MaxCalls /\ GenStart(<<HttpsTok, DomainTok>>, <<WordTok>>)

\* checkForDuplicate returns; Math.random() draws its first value
LimitDupResult == GenDupResult /\ (gpc' = "write" => gid' = generateUniqueId(now, 1))

\* Cancel in the dialog
LimitCancel == GenConfirm(FALSE) /\ gid' = generateUniqueId(now, 1)

\* time passes between two calls, or while confirm() blocks the page
LimitTick == gpc \in {"idle", "confirm"} /\ Tick

NextLimit ==
    \/ GenDisplay
    \/ LimitRequest
    \/ LimitDupResult
    \/ LimitCancel
    \/ GenWrite
    \/ LimitTick

SpecLimit == InitLimit /\ [][NextLimit]_vars

(***************************************************************************)
(* SpecValid: generateQRCode on inputs at, above and below the limits of   *)
(* validateQRInput, on a page that has asked for no code yet or whose      *)
(* limiter has already let through maxRequests - 1 calls (none of which    *)
(* stored a code).                                                         *)
(***************************************************************************)
\* what the user types into the text and the name field
ValidInputs ==
    LET url == <<HttpsTok, DomainTok>>
        word == <<WordTok>>
    IN  {<<url, word>>,
         <<url \o <<TextPad>>, word>>,
         <<url \o <<TextPad, LetterTok>>, word>>,
         <<<<SpaceTok>> \o url \o <<TextPad, SpaceTok>>, word>>,
         <<url, word \o <<NamePad>>>>,
         <<url, word \o <<NamePad, LetterTok>>>>,
         <<<<SpaceTok>>, word>>,
         <<<<>>, word>>,
         <<url, <<SpaceTok>>>>,
         <<<<JsTok, WordTok>>, word>>,
         <<url, <<VbsTok>>>>}

InitValid ==
    /\ InitGen
    /\ ~fbPresent[Page] => (cryptoOk[Page] /\ encStore[Page] = Absent)
    /\ storageOk

\* the calls the page made before: each let through, none stored a code
ValidEarlier ==
    /\ callLog = <<>>
    /\ gpc = "idle"
    /\ callLog' = [k \in 1 .. maxRequests - 1 |-> [time |-> now, ok |-> TRUE]]
    /\ requests' = [k \in 1 .. maxRequests - 1 |-> now]
    /\ UNCHANGED <<storeVars, envVars, incVars, pageVars, genVars>>

ValidRequest ==
    \E input \in ValidInputs :
       /\ \/ Len(callLog) < MaxGen
          \/ /\ Len(callLog) >= maxRequests - 1
             /\ Len(callLog) < maxRequests - 1 + MaxGen
       /\ GenStart(input[1], input[2])

NextValid ==
    \/ ValidEarlier
    \/ ValidRequest
    \/ GenDupResult
    \/ GenAnswer
    \/ GenWrite
    \/ GenWriteFail
    \/ GenDisplay
    \/ GenDisplayFail

SpecValid == InitValid /\ [][NextValid]_vars

(***************************************************************************)
(* SpecId: FirebaseManager.generateUniqueId, character by character, on    *)
(* the values Date.now() and Math.random() can return.                     *)
(***************************************************************************)
\* the digits Number.prototype.toString(36) writes
Digits36 ==
    <<"0", "1", "2", "3", "4", "5", "6", "7", "8", "9", "a", "b", "c", "d", "e", "f", "g",
      "h", "i", "j", "k", "l", "m", "n", "o", "p", "q", "r", "s", "t", "u", "v", "w", "x",
      "y", "z">>

\* Date.now().toString(36): an integer in base 36
RECURSIVE IntToString36(_)
IntToString36(n) ==
    IF n < 36 THEN <<Digits36[n + 1]>>
    ELSE IntToString36(n \div 36) \o <<Digits36[(n % 36) + 1]>>

\* the values of Math.random(), each given by its base-36 digits after the
\* point (none for 0, one for 0.5, ...; the last digit is not 0)
RandomDigits == {0, 18}
RandomValues ==
    {<<>>} \cup UNION {{f \in [1 .. n -> RandomDigits] : f[n] # 0} : n \in 1 .. MaxDigits}

\* Math.random().toString(36): "0" for 0, else "0." and the digits
FractionToString36(frac) ==
    IF frac = <<>> THEN <<"0">>
    ELSE <<"0", ".">> \o [i \in 1 .. Len(frac) |-> Digits36[frac[i] + 1]]

\* String.prototype.substr(start, length)
substr(str, start, length) ==
    SubSeq(str, start + 1, IF start + length < Len(str) THEN start + length ELSE Len(str))

\* generateUniqueId: `${timestamp}_${randomStr}`
generateUniqueIdText(time, frac) ==
    IntToString36(time) \o <<"_">> \o substr(FractionToString36(frac), 2, 9)

InitId ==
    /\ InitGen
    /\ ~fbPresent[Page] /\ cryptoOk[Page] /\ storageOk /\ encStore[Page] = Absent

\* the clock and the random source are read
IdDraw ==
    /\ idChars = <<>>
    /\ randomVal = <<>>
    /\ \E t \in Times, frac \in RandomValues \ {<<>>} :
          /\ now' = t
          /\ randomVal' = frac
    /\ UNCHANGED <<storeVars, fbPresent, cryptoOk, incVars, pageVars, rateVars, remLog,
                   databaseAvailable, storageOk, gpc, gtext, gname, existingQR, dupError,
                   gid, gsnap, genOutcome, lastRead, ops, written, idChars, reads, cpc, cid,
                   csnap, scanCountListener, listening, timers, disposed, called>>

\* generateUniqueId() returns
IdCall ==
    /\ idChars = <<>>
    /\ idChars' = generateUniqueIdText(now, randomVal)
    /\ UNCHANGED <<storeVars, envVars, incVars, pageVars, rateVars, remLog,
                   databaseAvailable, storageOk, gpc, gtext, gname, existingQR, dupError,
                   gid, gsnap, genOutcome, lastRead, ops, written, randomVal, reads, cpc, cid,
                   csnap, scanCountListener, listening, timers, disposed, called>>

NextId == IdDraw \/ IdCall

SpecId == InitId /\ [][NextId]_vars

(***************************************************************************)
(* SpecDup: one checkForDuplicate call on a store that already holds       *)
(* records: a few, or about limitToLast of them.                           *)
(***************************************************************************)
\* how many records the store holds
DupSizes == {n \in 0 .. MaxRecords : n <= 2 \/ n >= MaxRecords - 2}

\* the text and the name checkForDuplicate is called with
DupText == <<HttpsTok, DomainTok>>
DupName == <<WordTok>>

\* the k-th record created, at time k; the records numbered in matching have
\* the text and the name asked for, the others differ in one of the two
DupRecord(k, matching) ==
    LET id == generateUniqueId(k, 1)
    IN  IF k \in matching THEN [NewRecord(id, DupName, DupText, k) EXCEPT !.logoPath = selectedLogo]
        ELSE IF k % 2 = 1 THEN [NewRecord(id, <<DomainTok>>, DupText, k) EXCEPT !.logoPath = selectedLogo]
        ELSE [NewRecord(id, DupName, <<HttpsTok, WordTok>>, k) EXCEPT !.logoPath = selectedLogo]

\* the object 'qr-codes' with n records
DupStore(n, matching) ==
    [id \in {generateUniqueId(k, 1) : k \in 1 .. n} |->
        DupRecord(CHOOSE k \in 1 .. n : generateUniqueId(k, 1) = id, matching)]

InitDup ==
    /\ ipc = [c \in Clients |-> "idle"]
    /\ iid = [c \in Clients |-> NoId]
    /\ isnap = [c \in Clients |-> Null]
    /\ scans = [c \in Clients |-> 0]
    /\ incLogged = [c \in Clients |-> 0]
    /\ requests = <<>>
    /\ callLog = <<>>
    /\ remLog = <<>>
    /\ databaseAvailable = TRUE
    /\ storageOk = TRUE
    /\ gpc = "idle"
    /\ gtext = <<>>
    /\ gname = <<>>
    /\ existingQR = Null
    /\ dupError = FALSE
    /\ gid = NoId
    /\ gsnap = Null
    /\ genOutcome = "none"
    /\ lastRead = Null
    /\ ops = <<>>
    /\ ExtFresh
    /\ now = TickMs
    /\ pc = "done"
    /\ qrId = NoId
    /\ fallbackData = Null
    /\ qrData = Null
    /\ loadedFrom = "none"
    /\ consulted = <<>>
    /\ warned = {}
    /\ tracked = "none"
    /\ outcome = NoOutcome
    /\ shown = <<>>
    /\ cryptoOk = [c \in Clients |-> TRUE]
    /\ plainStore = [c \in Clients |-> Absent]
    /\ \E b \in BOOLEAN : fbPresent = [c \in Clients |-> IF c = Page THEN b ELSE TRUE]
    /\ \E n \in DupSizes :
       \E matching \in {{i, j} \ {0} : i, j \in 0 .. n} :
          /\ net = IF fbPresent[Page] THEN DupStore(n, matching) ELSE EmptyMap
          /\ encStore = [c \in Clients |->
                            IF c = Page /\ ~fbPresent[Page]
                            THEN Stored(DupStore(n, matching)) ELSE Absent]
          /\ written = [k \in 1 .. n |->
                           [id |-> generateUniqueId(k, 1), time |-> k, tier |-> Tier,
                            call |-> k, record |-> DupRecord(k, matching)]]

\* generateQRCode calls checkForDuplicate(text, name)
DupCall ==
    /\ gpc = "idle"
    /\ gpc' = "dup"
    /\ gtext' = DupText
    /\ gname' = DupName
    /\ LogOp("checkForDuplicate")
    /\ UNCHANGED <<storeVars, envVars, incVars, pageVars, rateVars, remLog,
                   databaseAvailable, storageOk, extVars, existingQR, dupError, gid, gsnap,
                   genOutcome, lastRead, written>>

\* checkForDuplicate returns
DupReturn ==
    /\ gpc = "dup"
    /\ \E r \in checkForDuplicate(gtext, gname) :
          /\ existingQR' = r.val
          /\ dupError' = r.err
          /\ encStore' = [encStore EXCEPT ![Page] = r.enc]
          /\ plainStore' = [plainStore EXCEPT ![Page] = r.plain]
    /\ gpc' = "checked"
    /\ UNCHANGED <<net, envVars, incVars, pageVars, rateVars, remLog, databaseAvailable,
                   storageOk, extVars, gtext, gname, gid, gsnap, genOutcome, lastRead, ops, written>>

NextDup == DupCall \/ DupReturn

SpecDup == InitDup /\ [][NextDup]_vars

(***************************************************************************)
(* The claims.                                                             *)
(***************************************************************************)
\* the page shows the content: it navigates, or displays it as text
Success(o) == o.kind \in {"Navigate", "DisplayAsText"}

\* the localStorage value store holds a record under id
Holds(store, id) == store.kind = "data" /\ store.data[id] # Null

\* the scanCount of every stored copy of record id this device can see
StoredCounts(id) ==
    (IF net[id] # Null THEN {net[id].scanCount} ELSE {})
    \cup (IF Holds(encStore[Page], id) THEN {encStore[Page].data[id].scanCount} ELSE {})
    \cup (IF Holds(plainStore[Page], id) THEN {plainStore[Page].data[id].scanCount} ELSE {})

\* C1 (as claimed): a resolution that loaded a stored record, and whose
\* incrementScanCount call returned without an error, leaves a stored copy of
\* the record with a scanCount one above the one it read; and all page loads
\* that show the content show the same content.
C1_CountedOncePerResolution ==
    /\ (pc \in {"preview", "done"} /\ loadedFrom # "none" /\ tracked = "ok")
          => (qrData.scanCount + 1) \in StoredCounts(qrId)
    /\ \A i, j \in 1 .. Len(shown) :
          (Success(shown[i]) /\ Success(shown[j])) => shown[i] = shown[j]

RECURSIVE SumLogged(_)
SumLogged(n) == IF n = 0 THEN 0 ELSE incLogged[n] + SumLogged(n - 1)

\* C2: on the networked tier the scanCount of the record is at all times its
\* initial 0 plus the number of incrementScanCount calls that went through,
\* in every interleaving of the clients' transactions: none is lost.
C2_NoLostIncrement ==
    \A id \in Ids : net[id] # Null /\ net[id].scanCount = SumLogged(NumClients)

\* C2, its case: one client's increment is applied while another client's
\* transaction still holds the value from before it
C2_Witness ==
    \E c, d \in Clients :
       /\ c # d
       /\ incLogged[d] >= 1
       /\ ipc[c] = "txn" /\ isnap[c] # Null /\ isnap[c] # net["qr1"]

\* C3 (as claimed): an id no store holds, with an inline payload in the
\* link: the page shows the payload's content and increments no counter.
C3_InlineFallback ==
    (/\ pc = "done" /\ qrId # NoId /\ fallbackData # Null
     /\ net[qrId] = Null /\ ~Holds(encStore[Page], qrId) /\ ~Holds(plainStore[Page], qrId)
     /\ loadedFrom = "none")
    => /\ Success(outcome)
       /\ outcome.text = fallbackData.text
       /\ tracked = "none"

SourceOrder == <<"firebase", "encrypted", "legacy", "inline">>

\* C4 (as claimed): the sources are read in the fixed order, nothing is read
\* after the source that yielded the record, and a resolution that got no
\* record from the three stores goes on to the inline payload and returns it.
C4_FirstSourceWins ==
    /\ Len(consulted) <= 4
    /\ \A k \in 1 .. Len(consulted) : consulted[k] = SourceOrder[k]
    /\ loadedFrom # "none" => loadedFrom = consulted[Len(consulted)]
    /\ (pc = "done" /\ qrId # NoId /\ loadedFrom = "none")
          => /\ consulted = SourceOrder
             /\ fallbackData # Null => Success(outcome)

\* the place of a source in the chain
Place(source) == CHOOSE k \in 1 .. 4 : SourceOrder[k] = source

\* source number k holds the record and can be read
Yields(k) ==
    CASE k = 1 -> fbPresent[Page] /\ net[qrId] # Null
      [] k = 2 -> cryptoOk[Page] /\ Holds(encStore[Page], qrId)
      [] k = 3 -> Holds(plainStore[Page], qrId)
      [] k = 4 -> fallbackData # Null

\* C5 (as claimed): when the read of a source has raised an error, the
\* sources after it are still read, and the record one of them holds is shown.
C5_ErrorIsolation ==
    (pc = "done" /\ qrId # NoId)
    => \A s \in warned :
          /\ loadedFrom = "none" => consulted = SourceOrder
          /\ (\E k \in Place(s) + 1 .. 4 : Yields(k)) => Success(outcome)

\* C6: when no source yields a record for the id (none of the reads of the
\* stores loaded one, and the link carries no payload), the page ends
\* with the 'content not found' error, having started no incrementScanCount
\* and navigated nowhere.
C6_NotFound ==
    (/\ pc = "done" /\ qrId # NoId /\ fallbackData = Null
     /\ loadedFrom = "none")
    => /\ outcome = ErrorPage("NotFound")
       /\ tracked = "none"
       /\ ipc[Page] = "idle"

\* C6, its case: every read came back empty, one of them with an error
C6_Witness ==
    /\ pc = "done" /\ qrId # NoId /\ fallbackData = Null
    /\ loadedFrom = "none" /\ consulted = <<"firebase", "encrypted", "legacy">>
    /\ warned # {}
    /\ outcome = ErrorPage("NotFound")

\* C7: when the page has loaded a stored record and its incrementScanCount
\* call failed, the page still ends by showing the record's content, not an
\* error; and while it has not ended, its next step is enabled.
C7_CounterFailureNotSurfaced ==
    (loadedFrom # "none" /\ tracked = "failed")
    => /\ pc \in {"preview", "done"}
       /\ pc = "preview" => ENABLED Redirect
       /\ pc = "done" => /\ Success(outcome)
                         /\ outcome = redirectToOriginal(qrData.originalText)

\* C7, its case: the transaction was rejected and the page shows the content
C7_Witness ==
    /\ pc = "done" /\ loadedFrom = "firebase" /\ tracked = "failed"
    /\ fbPresent[Page] /\ net[qrId] # Null
    /\ outcome.kind = "Navigate"
    /\ net[qrId].scanCount = qrData.scanCount

\* the content's URI scheme is javascript:, data:, vbscript: or file:
DangerousScheme(text) == Trim(text) # <<>> /\ Head(Trim(text)) \in OpaqueSchemes

\* C8 (as claimed): content with a dangerous scheme is displayed as text,
\* never navigated to.
C8_DangerousNeverNavigates ==
    (pc = "done" /\ DangerousScheme(qrData.originalText))
    => outcome.kind = "DisplayAsText"

\* the content is a bare domain: a dot, no space, no scheme
BareDomain(text) ==
    /\ Has(text, DomainTok)
    /\ \A i \in 1 .. Len(text) : text[i] \in Plain

\* C9 (as claimed): a bare domain is navigated to as https://<content>.
C9_BareDomainHttps ==
    (pc = "done" /\ BareDomain(qrData.originalText))
    => outcome = [kind |-> "Navigate", text |-> <<HttpsTok>> \o qrData.originalText]

\* the calls before call k that were let through less than timeWindow before it
GrantedBefore(k) ==
    {j \in 1 .. k - 1 : callLog[j].ok /\ callLog[k].time - callLog[j].time < timeWindow}

\* a call is let through exactly when fewer than maxRequests calls were let
\* through in the window before it
RateByHistory ==
    \A k \in 1 .. Len(callLog) :
       callLog[k].ok <=> Cardinality(GrantedBefore(k)) < maxRequests

\* the first maxRequests + 1 calls, made inside one window: all but the last
\* are let through
RateBurst ==
    (Len(callLog) > maxRequests
     /\ callLog[maxRequests + 1].time - callLog[1].time < timeWindow)
    => /\ \A k \in 1 .. maxRequests : callLog[k].ok
       /\ ~callLog[maxRequests + 1].ok

\* a call made more than timeWindow after the earliest recorded request is
\* let through
RateReopens ==
    (/\ requests # <<>>
     /\ now - requests[1] > timeWindow
     /\ Len(callLog') = Len(callLog) + 1)
    => callLog'[Len(callLog')].ok

\* C10: of 11 canMakeRequest calls inside one window of 60000 ms the first 10
\* return true and the 11th false; every call returns true exactly when fewer
\* than 10 calls were let through in the 60000 ms before it; and a call made
\* more than 60000 ms after the earliest recorded request returns true.
C10_RateLimit == [](RateByHistory /\ RateBurst) /\ [][RateReopens]_vars

\* C10, its case: the 11th call of a burst was refused, and a later call,
\* made when the window had passed, was let through
C10_Witness ==
    /\ Len(callLog) > maxRequests + 1
    /\ \A k \in 1 .. maxRequests : callLog[k].ok /\ callLog[k].time = 0
    /\ ~callLog[maxRequests + 1].ok /\ callLog[maxRequests + 1].time < timeWindow
    /\ callLog[maxRequests + 2].ok
    /\ callLog[maxRequests + 2].time >= timeWindow

\* C12: a canMakeRequest call that returns false leaves the stored list of
\* timestamps exactly as it was: the refused attempt is not recorded.
C12_DeniedRecordsNothing ==
    [][(Len(callLog') = Len(callLog) + 1 /\ ~callLog'[Len(callLog')].ok)
          => requests' = requests]_vars

\* C12, its case: a call was refused while the list held maxRequests
\* timestamps, the earliest of them older than the latest
C12_Witness ==
    /\ callLog # <<>> /\ ~callLog[Len(callLog)].ok
    /\ Len(requests) = maxRequests
    /\ requests[1] < requests[maxRequests]
    /\ callLog[Len(callLog)].time > requests[maxRequests]

\* the recorded timestamps strictly less than timeWindow old
RecentCount == Cardinality({i \in 1 .. Len(requests) : now - requests[i] < timeWindow})

\* C13: getRemainingRequests returns max(0, maxRequests - k), k the number of
\* recorded timestamps strictly less than timeWindow old, and changes nothing
\* of the limiter: a canMakeRequest call right after it is let through
\* exactly when the result was positive, as it would have been before it.
C13_RemainingIsPure ==
    [][remLog' # remLog
          => /\ requests' = requests
             /\ callLog' = callLog
             /\ remLog'[1].left = (IF maxRequests - RecentCount > 0
                                   THEN maxRequests - RecentCount ELSE 0)
             /\ (remLog'[1].left > 0) <=> (Len(Filter(requests', now')) < maxRequests)
             /\ (remLog'[1].left > 0) <=> (Len(Filter(requests, now)) < maxRequests)]_vars

\* C13, its case: the call was made with expired and fresh timestamps on record
C13_Witness ==
    /\ remLog # <<>>
    /\ remLog[1].time = now
    /\ remLog[1].left > 0 /\ remLog[1].left < maxRequests
    /\ \E i \in 1 .. Len(requests) : now - requests[i] >= timeWindow
    /\ \E i \in 1 .. Len(requests) : now - requests[i] < timeWindow

\* C14: every FirebaseManager call takes the tier the connectivity signal
\* names at the moment of the call: the Firebase path exactly when
\* FirebaseStatus.isAvailable() holds, the local path otherwise.
C14_TierFollowsSignal ==
    ops # <<>> => (ops[1].tier = "firebase" <=> ops[1].signal)

\* C15: a creation fails only when both tiers fail: when the write to
\* Firebase is rejected and localStorage can take the record, the creation
\* does not fail but stores the record locally.
C15_FailsOnlyIfBothFail ==
    (genOutcome = "failed" /\ \A k \in 1 .. Len(written) : written[k].call # Len(callLog))
    => ~storageOk

\* the record the last successful createQRCode stored
LastWritten == written[Len(written)].record

\* C16: getQRCode, called right after a successful createQRCode and not
\* throwing, returns a record equal to the stored one on id, name,
\* originalText, logoPath and scanCount.
C16_RoundTrip ==
    (lastRead # Null /\ ~lastRead.threw)
    => /\ lastRead.val # Null
       /\ lastRead.val.id = LastWritten.id
       /\ lastRead.val.name = LastWritten.name
       /\ lastRead.val.originalText = LastWritten.originalText
       /\ lastRead.val.logoPath = LastWritten.logoPath
       /\ lastRead.val.scanCount = LastWritten.scanCount

\* C17: the ids createQRCode gives out are pairwise distinct: no creation
\* writes under the id of an earlier one.
C17_IdsUnique ==
    \A j, k \in 1 .. Len(written) : j # k => written[j].id # written[k].id

\* the records checkForDuplicate looks through in the tier it takes
Examined ==
    IF fbPresent[Page]
    THEN {net[a] : a \in LastChildren(net)}
    ELSE LET localQRs ==
                 OrEmpty(getItem(encStore[Page], plainStore[Page], cryptoOk[Page]).val)
         IN  {localQRs[a] : a \in {b \in DOMAIN localQRs : localQRs[b] # Null}}

\* the generateQRCode calls the rate limit let through
Granted == Cardinality({k \in 1 .. Len(callLog) : callLog[k].ok})

\* createQRCode runs only when checkForDuplicate found nothing to find
NoMatchWhenCreating ==
    (gpc = "write" /\ existingQR = Null)
    => \A rec \in Examined : ~(rec.originalText = gtext /\ rec.name = gname)

\* as NoMatchWhenCreating, for a checkForDuplicate whose read did not fail
NoMatchUnlessReadFailed ==
    (gpc = "write" /\ existingQR = Null /\ ~dupError)
    => \A rec \in Examined : ~(rec.originalText = gtext /\ rec.name = gname)

\* while the dialog is open: what checkForDuplicate returned is a stored
\* record of this text and name, and createQRCode has not started
FoundBeforeCreate ==
    gpc = "confirm"
    => /\ existingQR # Null
       /\ existingQR.originalText = gtext /\ existingQR.name = gname
       /\ \E k \in 1 .. Len(written) : written[k].record = existingQR
       /\ ops[1].op = "checkForDuplicate"
       /\ Len(written) < Granted

\* OK in the dialog loads the existing code: no id is made, nothing written
UseExistingWritesNothing ==
    (gpc = "confirm" /\ genOutcome' = "loaded")
    => /\ written' = written
       /\ net' = net
       /\ gid' = gid
       /\ gsnap' = gsnap

\* C19 as stated: whenever a record of the same text and name is stored and
\* generateQRCode is called again with them, checkForDuplicate returns that
\* record before an id is generated or anything is written.
C19_DuplicateAlwaysFound == NoMatchWhenCreating

\* C19: when the read checkForDuplicate makes does not fail and yields a
\* record of the same text and name, checkForDuplicate returns such a record
\* before createQRCode generates an id or writes; and when the user takes
\* the existing record, nothing is written.  (A failed read gives null and
\* the creation goes on.)
C19_DuplicateFoundUnlessReadFails ==
    [](NoMatchUnlessReadFailed /\ FoundBeforeCreate) /\ [][UseExistingWritesNothing]_vars

\* C19, its case: the second call found the record of the first, the user
\* took it, and one record is stored
C19_Witness ==
    /\ genOutcome = "loaded"
    /\ Granted = 2
    /\ Len(written) = 1
    /\ existingQR = written[1].record

\* the records of the tier checkForDuplicate takes
TierStore ==
    IF fbPresent[Page] THEN net
    ELSE OrEmpty(getItem(encStore[Page], plainStore[Page], cryptoOk[Page]).val)

\* the ids of the limitToLast records created last
MostRecent ==
    {a \in DOMAIN TierStore :
        /\ TierStore[a] # Null
        /\ Cardinality({b \in DOMAIN TierStore :
                           /\ TierStore[b] # Null
                           /\ TierStore[b].createdAt > TierStore[a].createdAt})
              < limitToLast}

\* those of them with the text and the name asked for
RecentMatches ==
    {a \in MostRecent : TierStore[a].originalText = gtext /\ TierStore[a].name = gname}

\* C20: checkForDuplicate looks only at the limitToLast records created last
\* in the tier it takes, and returns the match created last among them, or
\* null when none of them matches, even if an older record does.
C20_NewestOfLastFifty ==
    (gpc = "checked" /\ ~dupError)
    => IF RecentMatches = {} THEN existingQR = Null
       ELSE /\ existingQR # Null
            /\ existingQR.id \in RecentMatches
            /\ \A b \in RecentMatches :
                  TierStore[b].createdAt <= existingQR.createdAt

\* C18: the scanCount stored under an id, in the database and in the local
\* cache, is never lowered by a step: not by a creation, a read or an
\* increment.
C18_ScanCountNeverDecreases ==
    [][\A id \in AllIds :
          /\ (net[id] # Null /\ net'[id] # Null)
                => net'[id].scanCount >= net[id].scanCount
          /\ (Holds(encStore[Page], id) /\ Holds(encStore'[Page], id))
                => encStore'[Page].data[id].scanCount >= encStore[Page].data[id].scanCount
          /\ (Holds(plainStore[Page], id) /\ Holds(plainStore'[Page], id))
                => plainStore'[Page].data[id].scanCount
                      >= plainStore[Page].data[id].scanCount]_vars

\* C11 as stated: of the records createQRCode has written, no more than
\* maxRequests fall into any window of timeWindow milliseconds.
C11_WritesPerWindow ==
    \A k \in 1 .. Len(written) :
       Cardinality({j \in 1 .. Len(written) :
                       /\ written[j].time <= written[k].time
                       /\ written[k].time - written[j].time < timeWindow}) <= maxRequests

\* the indices of the generateQRCode calls the limiter let through up to
\* time t
AdmittedBy(t) == {j \in 1 .. Len(callLog) : callLog[j].ok /\ callLog[j].time <= t}

\* C11: within one page load the limiter lets through no more than
\* maxRequests generateQRCode calls in any window of timeWindow milliseconds,
\* counted at the time of the call, and createQRCode writes at most one
\* record per call let through, at or after the time of that call.  (The
\* write itself can come later than the call, after the dialog.)
C11_AdmissionsPerWindow ==
    /\ \A k \in 1 .. Len(callLog) :
          callLog[k].ok
          => Cardinality({j \in AdmittedBy(callLog[k].time) :
                             callLog[k].time - callLog[j].time < timeWindow})
                <= maxRequests
    /\ Len(written) <= Granted
    /\ \A k \in 1 .. Len(written) : Cardinality(AdmittedBy(written[k].time)) >= k

\* C11, its case: maxRequests records were written inside one window, one
\* of them later than the call that asked for it, and the next call was
\* refused
C11_Witness ==
    /\ Len(written) = maxRequests
    /\ written[maxRequests].time - written[1].time < timeWindow
    /\ \E k \in 1 .. Len(written) :
          Cardinality(AdmittedBy(written[k].time - 1)) >= k
    /\ genOutcome = "denied"

\* C21: when the read behind checkForDuplicate fails, checkForDuplicate
\* returns null and generateQRCode goes straight on to createQRCode, without
\* a dialog and without an error: the failed detection does not stop the
\* creation.
C21_DetectionFailsOpen ==
    [][(gpc = "dup" /\ gpc' # "dup" /\ dupError')
          => /\ existingQR' = Null
             /\ gpc' = "write"
             /\ ops'[1].op = "createQRCode"
             /\ genOutcome' = "none"]_vars

\* C21, its case: a record of this text and name was stored, the read of the
\* second call failed, and the second record was written
C21_Witness ==
    /\ dupError
    /\ genOutcome = "created"
    /\ Len(written) = 2
    /\ written[1].record.originalText = written[2].record.originalText
    /\ written[1].record.name = written[2].record.name
    /\ written[1].id # written[2].id

\* the characters toString(36) writes for a digit
IsDigit36(ch) == \E d \in 1 .. Len(Digits36) : Digits36[d] = ch

\* C22: an id generateUniqueId returns is the base-36 text of the clock
\* reading, the separator "_", and a suffix of base-36 digits that is at
\* least 9 characters long, whatever Math.random() returned.
C22_IdForm ==
    idChars # <<>>
    => LET stamp == IntToString36(now)
           suffix == SubSeq(idChars, Len(stamp) + 2, Len(idChars))
       IN  /\ Len(idChars) > Len(stamp)
           /\ SubSeq(idChars, 1, Len(stamp)) = stamp
           /\ idChars[Len(stamp) + 1] = "_"
           /\ \A k \in 1 .. Len(suffix) : IsDigit36(suffix[k])
           /\ Len(suffix) >= 9

\* the last generateQRCode call has stored a record
WroteRecord == \E k \in 1 .. Len(written) : written[k].call = Len(callLog)

\* C24: a generateQRCode call that ends with the alert 'Failed to generate
\* QR code' has stored no record, in the database or in the local cache, and
\* a call that has stored a record ends by showing the code for its id and
\* redirect URL.
C24_NoPartialWrite ==
    gpc = "idle" => (WroteRecord <=> genOutcome = "created")

\* what the limits of a creation request forbid: text or name empty or too
\* long, or a disallowed pattern in one of them
BadInput(text, name) ==
    \/ StringLength(text) = 0 \/ StringLength(text) > maxTextLength
    \/ StringLength(name) = 0 \/ StringLength(name) > maxNameLength
    \/ \E t \in {JsTok, VbsTok} : Has(text, t) \/ Has(name, t)

\* a generateQRCode call with such an input does nothing to the stores and
\* asks nothing of FirebaseManager
BadInputCreatesNothing ==
    (Len(callLog') = Len(callLog) + 1 /\ BadInput(gtext', gname'))
    => /\ gpc' = "idle"
       /\ gid' = gid
       /\ ops' = ops
       /\ storeVars' = storeVars
       /\ written' = written

\* ... and ends with the validation error
BadInputIsInvalid ==
    (Len(callLog') = Len(callLog) + 1 /\ BadInput(gtext', gname'))
    => genOutcome' = "invalid"

\* ... and ends with the validation error if the limiter let it through
BadInputIsInvalidIfAdmitted ==
    (Len(callLog') = Len(callLog) + 1 /\ callLog'[Len(callLog')].ok
        /\ BadInput(gtext', gname'))
    => genOutcome' = "invalid"

\* every record createQRCode stored is within the limits
StoredWithinLimits ==
    \A k \in 1 .. Len(written) :
       LET rec == written[k].record
       IN  /\ StringLength(rec.originalText) >= 1
           /\ StringLength(rec.originalText) <= maxTextLength
           /\ StringLength(rec.name) >= 1
           /\ StringLength(rec.name) <= maxNameLength

\* C23 as stated: every generateQRCode call whose text is empty or longer
\* than 4000 characters, whose name is empty or longer than 100, or that
\* holds a disallowed pattern ends with the validation error, makes no id
\* and reads and writes no store; every stored record is within the limits.
C23_InvalidInputRejected ==
    [][BadInputCreatesNothing /\ BadInputIsInvalid]_vars

\* C23: such a call makes no id and reads and writes no store, and ends
\* with the validation error when the rate limiter let it through (a call
\* the limiter refuses ends with the rate-limit message before its input is
\* validated); every stored record is within the limits.
C23_InvalidInputCreatesNothing ==
    [](StoredWithinLimits) /\ [][BadInputCreatesNothing /\ BadInputIsInvalidIfAdmitted]_vars

\* C23, its case: a text of maxTextLength characters was stored, and a text
\* one character longer was refused
C23_Witness ==
    /\ genOutcome = "invalid"
    /\ StringLength(gtext) = maxTextLength + 1
    /\ \E k \in 1 .. Len(written) :
          StringLength(written[k].record.originalText) = maxTextLength

\* the object 'qr-codes' as the page's localStorage holds it
LocalRecords(enc, plain) ==
    IF enc # Absent /\ enc.kind = "data" THEN enc.data
    ELSE IF plain # Absent /\ plain.kind = "data" THEN plain.data
    ELSE EmptyMap

\* an entry is as it was, but for scanCount and lastScanned if it is the
\* record of id
OnlyCounted(before, after, id, incremented) ==
    IF before = Null \/ after = Null THEN before = after
    ELSE /\ after.id = before.id
         /\ after.name = before.name
         /\ after.originalText = before.originalText
         /\ after.logoPath = before.logoPath
         /\ after.createdAt = before.createdAt
         /\ id # incremented
               => (after.scanCount = before.scanCount
                      /\ after.lastScanned = before.lastScanned)

\* C25: a step of incrementScanCount(id) leaves every record as it was but
\* for scanCount and lastScanned of the record of id, in the database and
\* in the local cache, and adds and removes no record.
C25_IncrementTouchesOnlyCounter ==
    [][incVars' # incVars
          => \A id \in AllIds :
                /\ OnlyCounted(net[id], net'[id], id, iid'[Page])
                /\ OnlyCounted(LocalRecords(encStore[Page], plainStore[Page])[id],
                               LocalRecords(encStore'[Page], plainStore'[Page])[id],
                               id, iid'[Page])]_vars

(***************************************************************************)
(* SpecCache: CryptoManager.getItem('qr-codes') is called MaxReads times   *)
(* on a localStorage that holds an encrypted entry, a legacy entry, both   *)
(* or none.                                                                *)
(***************************************************************************)
genCore == <<remLog, databaseAvailable, storageOk, gpc, gtext, gname, existingQR,
             dupError, gid, gsnap, genOutcome, lastRead, ops, written>>
listenVars == <<scanCountListener, listening, timers, disposed, called>>

\* the objects the key can hold
CacheValues ==
    {EmptyMap} \cup
    {[i \in AllIds |-> IF i \in Ids THEN [NewRecord(i, <<WordTok>>, text, 1)
                                             EXCEPT !.scanCount = n]
                       ELSE Null] :
        text \in {<<WordTok>>, <<HttpsTok, DomainTok>>}, n \in 0 .. MaxScans}

InitCache ==
    /\ Fresh
    /\ pc = "done"
    /\ qrId = NoId
    /\ fallbackData = Null
    /\ qrData = Null
    /\ loadedFrom = "none"
    /\ consulted = <<>>
    /\ warned = {}
    /\ tracked = "none"
    /\ outcome = NoOutcome
    /\ shown = <<>>
    /\ now = 0
    /\ net = EmptyMap
    /\ fbPresent = [c \in Clients |-> c # Page]
    /\ \E b \in BOOLEAN : cryptoOk = [c \in Clients |-> IF c = Page THEN b ELSE TRUE]
    /\ \E enc \in {Absent, Garbled} \cup {Stored(m) : m \in CacheValues} :
          encStore = [c \in Clients |-> IF c = Page THEN enc ELSE Absent]
    /\ \E plain \in {Absent, Garbled} \cup {Stored(m) : m \in CacheValues} :
          plainStore = [c \in Clients |-> IF c = Page THEN plain ELSE Absent]

\* one getItem('qr-codes') call: legacy tells that the value came from the
\* unencrypted entry
CacheGetItem ==
    /\ Len(reads) < MaxReads
    /\ LET r == getItem(encStore[Page], plainStore[Page], cryptoOk[Page])
           legacy == /\ encStore[Page] = Absent
                     /\ plainStore[Page] # Absent
                     /\ plainStore[Page].kind = "data"
       IN  /\ reads' = Append(reads, [val |-> r.val, legacy |-> legacy])
           /\ encStore' = [encStore EXCEPT ![Page] = r.enc]
           /\ plainStore' = [plainStore EXCEPT ![Page] = r.plain]
    /\ UNCHANGED <<net, envVars, incVars, pageVars, rateVars, genCore, randomVal, idChars,
                   cpc, cid, csnap, listenVars>>

NextCache == CacheGetItem

SpecCache == InitCache /\ [][NextCache]_vars

\* C26: once getItem('qr-codes') has returned the data of the legacy
\* unencrypted entry, every later getItem('qr-codes') returns the same
\* data, whether the encryption works or not.
C26_MigrationKeepsData ==
    \A i, j \in 1 .. Len(reads) :
        (i < j /\ reads[i].legacy) => reads[j].val = reads[i].val

(***************************************************************************)
(* SpecOverlap: generateQRCode is called again (Ctrl+Enter in the text     *)
(* area) while earlier calls of the page are suspended at an await; the    *)
(* form is the same for every call, the page has no Firebase.              *)
(***************************************************************************)
overlapText == <<HttpsTok, DomainTok>>
overlapName == <<WordTok>>

InitOverlap ==
    /\ InitGen
    /\ ~fbPresent[Page]
    /\ storageOk

\* generateQRCode of call r up to its first await
OverlapStart(r) ==
    /\ cpc[r] = "idle"
    /\ canMakeRequest
    /\ cpc' = [cpc EXCEPT ![r] = IF callLog'[Len(callLog')].ok THEN "dup" ELSE "denied"]
    /\ UNCHANGED <<genCore, randomVal, idChars, reads, cid, csnap, listenVars>>

\* createQRCode of call r up to its write: the id, and the object 'qr-codes'
\* read from the localStorage enc, plain, with the new record added
OverlapCreateCall(r, enc, plain, randomStr) ==
    LET newId == generateUniqueId(now, randomStr)
        newData == [NewRecord(newId, overlapName, overlapText, now)
                       EXCEPT !.logoPath = selectedLogo]
        got == getItem(enc, plain, cryptoOk[Page])
    IN  /\ cid' = [cid EXCEPT ![r] = newId]
        /\ csnap' = [csnap EXCEPT ![r] = [OrEmpty(got.val) EXCEPT ![newId] = newData]]
        /\ cpc' = [cpc EXCEPT ![r] = "write"]
        /\ encStore' = [encStore EXCEPT ![Page] = got.enc]
        /\ plainStore' = [plainStore EXCEPT ![Page] = got.plain]

\* checkForDuplicate of call r returns
OverlapDupResult(r) ==
    /\ cpc[r] = "dup"
    /\ \E d \in checkForDuplicate(overlapText, overlapName) :
          IF d.val # Null
          THEN /\ cpc' = [cpc EXCEPT ![r] = "confirm"]
               /\ encStore' = [encStore EXCEPT ![Page] = d.enc]
               /\ plainStore' = [plainStore EXCEPT ![Page] = d.plain]
               /\ UNCHANGED <<cid, csnap>>
          ELSE \E randomStr \in Randoms : OverlapCreateCall(r, d.enc, d.plain, randomStr)
    /\ UNCHANGED <<net, envVars, incVars, pageVars, rateVars, genCore, randomVal, idChars,
                   reads, listenVars>>

\* the user answers the dialog of call r: OK loads the existing code, Cancel
\* creates a duplicate
OverlapConfirm(r, confirmCreate) ==
    /\ cpc[r] = "confirm"
    /\ IF confirmCreate
       THEN /\ cpc' = [cpc EXCEPT ![r] = "loaded"]
            /\ UNCHANGED <<cid, csnap, encStore, plainStore>>
       ELSE \E randomStr \in Randoms :
               OverlapCreateCall(r, encStore[Page], plainStore[Page], randomStr)
    /\ UNCHANGED <<net, envVars, incVars, pageVars, rateVars, genCore, randomVal, idChars,
                   reads, listenVars>>

\* CryptoManager.setItem of call r stores its object; createQRCode returns
\* the id
OverlapWrite(r) ==
    /\ cpc[r] = "write"
    /\ LET after == setItem(encStore[Page], plainStore[Page], cryptoOk[Page], csnap[r])
       IN  /\ encStore' = [encStore EXCEPT ![Page] = after.enc]
           /\ plainStore' = [plainStore EXCEPT ![Page] = after.plain]
    /\ written' = Append(written, [id |-> cid[r], time |-> now, tier |-> Tier,
                                   call |-> r, record |-> csnap[r][cid[r]]])
    /\ cpc' = [cpc EXCEPT ![r] = "created"]
    /\ UNCHANGED <<net, envVars, incVars, pageVars, rateVars, remLog, databaseAvailable,
                   storageOk, gpc, gtext, gname, existingQR, dupError, gid, gsnap,
                   genOutcome, lastRead, ops, randomVal, idChars, reads, cid, csnap,
                   listenVars>>

OverlapRequest == \E r \in Requests : OverlapStart(r)
OverlapDup == \E r \in Requests : OverlapDupResult(r)
OverlapAnswer == \E r \in Requests, confirmCreate \in BOOLEAN : OverlapConfirm(r, confirmCreate)
OverlapStore == \E r \in Requests : OverlapWrite(r)

NextOverlap ==
    \/ OverlapRequest
    \/ OverlapDup
    \/ OverlapAnswer
    \/ OverlapStore
    \/ GenTick

SpecOverlap == InitOverlap /\ [][NextOverlap]_vars

\* every call of the page has ended
OverlapDone == \A r \in Requests : cpc[r] \in {"created", "loaded", "denied"}

\* C27: on the local path, once the overlapping generateQRCode calls of the
\* page have all ended, the record of every call whose createQRCode returned
\* an id is in the object 'qr-codes' of the localStorage.
C27_OverlapKeepsRecords ==
    OverlapDone =>
        \A r \in Requests :
            cpc[r] = "created"
                => LocalRecords(encStore[Page], plainStore[Page])[cid[r]] # Null

(***************************************************************************)
(* SpecListen: the generator page with the subscriptions of                *)
(* FirebaseManager.onScanCountChange delivering to the callback.           *)
(***************************************************************************)
\* Firebase delivers a 'value' event to a listener that is attached: the
\* callback gets the record when there is one
ValueEvent ==
    /\ fbPresent[Page]
    /\ \E l \in listening :
          /\ net[l.id] # Null
          /\ called' = <<[sub |-> l.n, id |-> l.id, data |-> net[l.id]]>>
    /\ UNCHANGED <<storeVars, envVars, incVars, pageVars, rateVars, genCore, randomVal,
                   idChars, reads, cpc, cid, csnap, scanCountListener, listening, timers,
                   disposed>>

\* the setTimeout of the local path runs: getQRCode, then the callback with
\* the record when there is one
TimerFire ==
    \E t \in timers :
        /\ timers' = timers \ {t}
        /\ \E r \in getQRCode(Page, t.id) :
              /\ encStore' = [encStore EXCEPT ![Page] = r.enc]
              /\ plainStore' = [plainStore EXCEPT ![Page] = r.plain]
              /\ IF r.val # Null /\ ~r.threw
                 THEN called' = <<[sub |-> t.n, id |-> t.id, data |-> r.val]>>
                 ELSE UNCHANGED called
        /\ UNCHANGED <<net, envVars, incVars, pageVars, rateVars, genCore, randomVal,
                       idChars, reads, cpc, cid, csnap, scanCountListener, listening,
                       disposed>>

NextListen ==
    \/ GenDisplay
    \/ GenDisplayFail
    \/ GenRequest
    \/ GenDupResult
    \/ GenAnswer
    \/ GenWrite
    \/ GenWriteFail
    \/ ConnectionChange
    \/ ValueEvent
    \/ TimerFire

SpecListen == InitGen /\ [][NextListen]_vars

\* C28: once the cleanup function that onScanCountChange returned for a
\* subscription has been called, the callback of that subscription is not
\* called again, with Firebase and on the local path.
C28_DisposedNeverCalled ==
    [][called' # called => called'[1].sub \notin disposed']_vars

\* the page presents the content of the code: it navigates to it or shows
\* it as text
PresentsContent == pc = "done" /\ outcome.kind \in {"Navigate", "DisplayAsText"}

\* C29: when init() has found a record and the page presents its content,
\* the incrementScanCount call of init() has ended, with or without an
\* error, and is no longer running.
C29_PresentAfterIncrement ==
    (PresentsContent /\ loadedFrom # "none")
        => (tracked \in {"ok", "failed"} /\ ipc[Page] = "idle" /\ scans[Page] >= 1)

C29_Witness ==
    /\ PresentsContent
    /\ loadedFrom # "none"
    /\ outcome.kind = "DisplayAsText"
    /\ tracked = "ok"
    /\ scans[Page] >= 1

\* canMakeRequest has just returned, and what it returned
LimiterAnswered == Len(callLog') = Len(callLog) + 1
LimiterSaidYes == callLog'[Len(callLog')].ok

\* checkForDuplicate is called only by a generateQRCode that the limiter
\* has just let through
SearchAfterLimiter ==
    (gpc' = "dup" /\ gpc # "dup")
        => /\ gpc = "idle"
           /\ LimiterAnswered /\ LimiterSaidYes
           /\ ops'[1].op = "checkForDuplicate"

\* createQRCode makes its id only when checkForDuplicate has returned (or
\* the dialog that followed was answered), in a call the limiter let through
IdAfterSearch ==
    (gpc' = "write" /\ gpc # "write")
        => /\ gpc \in {"dup", "confirm"}
           /\ callLog = callLog' /\ callLog[Len(callLog)].ok
           /\ ops'[1].op = "createQRCode"
           /\ gid' \in GenIds

\* the database or the local cache holds a record it did not hold
RecordAdded ==
    \E id \in AllIds :
        \/ net[id] = Null /\ net'[id] # Null
        \/ /\ LocalRecords(encStore[Page], plainStore[Page])[id] = Null
           /\ LocalRecords(encStore'[Page], plainStore'[Page])[id] # Null

\* a record is stored only by a createQRCode that has made its id, in a call
\* the limiter let through
WriteAfterId ==
    (written' # written \/ RecordAdded)
        => /\ gpc = "write"
           /\ callLog = callLog' /\ callLog[Len(callLog)].ok
           /\ Len(written') = Len(written) + 1
           /\ written'[Len(written')].id = gid
           /\ written'[Len(written')].call = Len(callLog)

\* a call the limiter refuses calls nothing of FirebaseManager and ends
DeniedDoesNothing ==
    (LimiterAnswered /\ ~LimiterSaidYes)
        => /\ gpc' = "idle"
           /\ genOutcome' = "denied"
           /\ UNCHANGED <<ops, gid, gsnap, storeVars, written>>

\* C30: in one generateQRCode call the steps come in the order
\* canMakeRequest, checkForDuplicate, generateUniqueId, write: a record is
\* written only in a call the limiter let through and after the duplicate
\* search of that call has returned, and a call the limiter refuses searches
\* no duplicate, makes no id and writes no record.
C30_CreationOrder ==
    [][SearchAfterLimiter /\ IdAfterSearch /\ WriteAfterId /\ DeniedDoesNothing]_vars

\* C30, its case: records were written by calls let through, and the last
\* call was refused and left the page as the last createQRCode had left it
C30_Witness ==
    /\ callLog # <<>> /\ ~callLog[Len(callLog)].ok
    /\ gpc = "idle" /\ genOutcome = "denied"
    /\ written # <<>>
    /\ written[Len(written)].call < Len(callLog)
    /\ ops[1].op = "createQRCode"

=============================================================================
